---- MODULE Spec2Model ----
(***************************************************************************)
(* Event store write/read protocol of the eventhorizon MongoDB stores:     *)
(*   layout "A"  eventstore/mongodb     one document per aggregate holding *)
(*               its events as an embedded list;                           *)
(*   layout "B"  eventstore/mongodb_v2  an events collection, a streams    *)
(*               collection and the "$all" counter document, written in    *)
(*               one multi-statement transaction.                          *)
(* MongoDB is the environment: a single-document operation is atomic, a    *)
(* transaction's writes are private until it commits, a write to a         *)
(* document another open transaction has written fails with a write        *)
(* conflict, and WithTransaction runs its callback again after one.        *)
(* The change feed tailer of mongodb_factory.go (CollectionWatchChange-     *)
(* Stream, listenForChanges, Close) is a second component with its own     *)
(* specification, SpecT. The maintenance operation Replace and Load as a   *)
(* call are checked under SpecM, on the stores that Save leaves behind.    *)
(***************************************************************************)
EXTENDS Integers, Sequences, FiniteSets, TLC

\* ------------------------------------------------------------------ bounds
MaxVersion == 2
MaxBatch == 2
MaxPos == 3
MaxRetries == 1
MaxRecords == 2
MaxDrops == 2

\* ------------------------------------------------------------- input sets
Writers == {"w1", "w2"}
AggregateIDs == {"s1", "s2"}
AggregateTypes == {"t1", "t2"}
Layouts == {"A", "B"}
AllStream == "$all"
NoBatch == << >>

VARIABLES
    layout,           \* which store package the deployment uses
    useCustomPrefix,  \* EventStore.useCustomPrefix
    handlerSet,       \* EventStore.eventHandler != nil
    aggregates,       \* layout A: aggregate id -> aggregateRecord
    events,           \* layout B: events collection, its evt documents in natural order
    eventsById,       \* layout B: documents of the events collection whose _id is a uuid
    streams,          \* layout B: streams collection, _id -> document ("$all" included)
    pc,               \* per writer: where its Save call is
    batch,            \* per writer: the events argument of its Save call
    ov,               \* per writer: the originalVersion argument
    txBase,           \* per writer: allStream.Position read inside the transaction
    retries,          \* per writer: times WithTransaction has run the callback again
    issued,           \* per writer: the call has issued a storage operation
    result,           \* per writer: what its Save call returned, while the caller holds it
    handled,          \* per writer: the events the call handed to the event handler, in order
    inputFaults,      \* per writer: what is wrong with the batch it passed
    verAtStart,       \* per writer: the stream's stored version when its call began
    overlapped,       \* per writer: another Save was in progress during its call
    committedEv,      \* per stream: events of the Save calls that returned with their write committed
    succeededEv,      \* per stream: events of the Save calls that returned nil
    committed,        \* change feed: number of records committed to the watched collection
    opts,             \* change feed: the resume marker in the caller's ChangeStreamOptions
    subscribedAt,     \* change feed: where the first stream of the subscription started
    fpc,              \* per caller of another facade operation: where its call is
    resumeToken,      \* change feed: *resumeToken, the caller's variable
    tpc,              \* listenForChanges: where the goroutine is
    cursor,           \* the open stream's place: the last record it has returned
    current,          \* stream.Current
    streamErr,        \* stream.Err() != nil
    drops,            \* times an open stream has failed
    delivered,        \* the records the consumer has received from changeChan, in order
    changeChanClosed, \* close(changeChan) has run
    consumerActive,   \* fn is receiving from changeChan
    errChanLen,       \* errors buffered in db.errChan
    errChanClosed,    \* close(db.errChan) has run
    ctxDone,          \* the caller's ctx is cancelled
    cctxDone,         \* db.cctx is cancelled
    mtx,              \* db.mtx: who holds it
    closeWG,          \* db.closeWG: its counter
    closePc,          \* db.Close: where the call is
    rpc,              \* Replace: where the call is
    rEvent,           \* Replace: its event argument
    rFound,           \* Replace, layout B: eventToReplace.Position
    rResult,          \* Replace: what the call returned
    loaded,           \* Load: what the call returned, while the caller holds it
    loadArg,          \* Load: its id argument
    cursorDocs,       \* Load: the records FindOne/Find gave it, in the order given
    renamed,          \* RenameEvent: its arguments and result, while the caller holds it
    snapshots,        \* layout B: the stream ids with documents in the snapshots collection
    rmPc,             \* Remove: where the call is
    rmArg,            \* Remove: its id argument
    rmResult,         \* Remove: what the call returned
    clPc,             \* Clear: where the call is
    clResult,         \* Clear: what the call returned
    ePc,              \* per further store instance: where its ensureAllStream is
    maintCalls,       \* Remove and Clear calls made so far
    findIn,           \* Repo.FindCustom / FindCustomIter: the repo's fields and the callback f
    findOut,          \* Repo.FindCustom / FindCustomIter: what the call returned
    doIn,             \* DefaultBackOff.Do: b.retries and what fn returns, call by call
    doOut             \* DefaultBackOff.Do: what the call returned, and its calls of fn

confVars == <<layout, useCustomPrefix, handlerSet>>
storeVars == <<aggregates, events, eventsById, streams>>
callVars == <<pc, batch, ov, txBase, retries, issued>>
retVars == <<result, handled, inputFaults>>
histVars == <<verAtStart, overlapped, committedEv, succeededEv>>
tailVars == <<committed, opts, subscribedAt, fpc, resumeToken, tpc, cursor, current, streamErr, drops,
              delivered, changeChanClosed, consumerActive, errChanLen, errChanClosed,
              ctxDone, cctxDone, mtx, closeWG, closePc>>
replVars == <<rpc, rEvent, rFound, rResult, loaded, loadArg, cursorDocs, renamed>>
remVars == <<snapshots, rmPc, rmArg, rmResult, clPc, clResult, ePc, maintCalls>>
maintVars == <<replVars, remVars>>
backVars == <<doIn, doOut>>
repoVars == <<findIn, findOut, backVars>>
saveVars == <<confVars, repoVars, storeVars, callVars, retVars, histVars, maintVars>>
vars == <<saveVars, tailVars>>

\* ------------------------------------------------------------ input events
Min(S) == CHOOSE x \in S : \A y \in S : x <= y
OtherOf(S, x) == CHOOSE y \in S : y # x

\* Event types and payloads. "e1" has a payload factory registered with
\* eh.RegisterEventData in the loading process, "eX" has none. A payload is
\* absent (NoData: Data() is nil, RawData is empty), or bytes that unmarshal
\* into the registered type ("d0", "d1"), or bytes that do not (BadData).
Registered == {"e1"}
NoData == "none"
BadData == "bad"

\* An eh.Event as the store reads it: AggregateID(), AggregateType(),
\* Version(), EventType(), Data().
EventOf(aid, atype, version, etype, data) ==
    [aid |-> aid, atype |-> atype, version |-> version, etype |-> etype, data |-> data]

\* The events of the Save callers: a registered type with a payload.
Event(aid, atype, version) == EventOf(aid, atype, version, "e1", "d0")

\* The aggregate type of an aggregate id: an aggregate is of one type.
AggregateTypeOf(aid) == IF aid = "s1" THEN "t1" ELSE "t2"

\* The batch a caller builds for an aggregate at originalVersion o.
ContiguousBatch(aid, o, n) == [i \in 1..n |-> Event(aid, AggregateTypeOf(aid), o + i)]

Defects == {"none", "id", "type", "versionUp", "versionDown"}

\* The same batch with one event changed at position p.
Defective(b, p, d) ==
    [i \in 1..Len(b) |->
        IF i # p \/ d = "none" THEN b[i]
        ELSE IF d = "id" THEN [b[i] EXCEPT !.aid = OtherOf(AggregateIDs, @)]
        ELSE IF d = "type" THEN [b[i] EXCEPT !.atype = OtherOf(AggregateTypes, @)]
        ELSE IF d = "versionUp" THEN [b[i] EXCEPT !.version = @ + 1]
        ELSE [b[i] EXCEPT !.version = @ - 1]]

Batches(o) ==
    {NoBatch} \cup
    {Defective(ContiguousBatch(aid, o, n), p, d) :
        <<aid, n, p, d>> \in
            {t \in AggregateIDs \X (1..MaxBatch) \X (1..MaxBatch) \X Defects :
                /\ t[3] <= t[2]
                /\ t[4] \in {"id", "type"} => t[3] >= 2
                /\ o + t[2] <= MaxVersion}}

\* ------------------------------------------------------- call bookkeeping
InProgress(w) == pc[w] \notin {"idle", "done"}

\* What is wrong with a batch passed with originalVersion o, in the words of
\* the Save contract: it is empty, its events are of more than one stream id
\* or stream type, an event's version is not o + its 1-based offset.
BatchFaults(b, o) ==
    (IF Len(b) = 0 THEN {"empty"} ELSE {}) \cup
    (IF \E i, j \in 1..Len(b) : b[i].aid # b[j].aid THEN {"ids"} ELSE {}) \cup
    (IF \E i, j \in 1..Len(b) : b[i].atype # b[j].atype THEN {"types"} ELSE {}) \cup
    (IF \E i \in 1..Len(b) : b[i].version # o + i THEN {"versions"} ELSE {})

\* Results of a Save whose write is in the store when it returns.
CommittedResults == {"ok", "EventHandlerError", "CouldNotHandleEventError"}

\* Save returns r after a write attempt: the caller holds the result, and
\* the tallies of returned calls are brought up to date.
Return(w, r, calls) ==
    /\ pc' = [pc EXCEPT ![w] = "done"]
    /\ result' = [result EXCEPT ![w] = r]
    /\ handled' = [handled EXCEPT ![w] = calls]
    /\ committedEv' = IF r \in CommittedResults
                      THEN [committedEv EXCEPT ![batch[w][1].aid] = @ + Len(batch[w])]
                      ELSE committedEv
    /\ succeededEv' = IF r = "ok"
                      THEN [succeededEv EXCEPT ![batch[w][1].aid] = @ + Len(batch[w])]
                      ELSE succeededEv
    /\ UNCHANGED <<batch, ov, txBase, retries, inputFaults, verAtStart, overlapped>>

\* Save returns r from its precondition checks; the stream of the batch's
\* first event is at version `stored`.
Reject(w, b, o, r, stored) ==
    /\ pc' = [pc EXCEPT ![w] = "done"]
    /\ batch' = [batch EXCEPT ![w] = b]
    /\ ov' = [ov EXCEPT ![w] = o]
    /\ result' = [result EXCEPT ![w] = r]
    /\ inputFaults' = [inputFaults EXCEPT ![w] = BatchFaults(b, o)]
    /\ verAtStart' = [verAtStart EXCEPT ![w] = stored]
    /\ UNCHANGED <<txBase, retries, issued, handled, overlapped, committedEv, succeededEv>>

\* Save passes its precondition checks and goes on to the store, where the
\* stream is at version `stored`.
Accept(w, b, o, next, stored) ==
    /\ pc' = [pc EXCEPT ![w] = next]
    /\ batch' = [batch EXCEPT ![w] = b]
    /\ ov' = [ov EXCEPT ![w] = o]
    /\ inputFaults' = [inputFaults EXCEPT ![w] = BatchFaults(b, o)]
    /\ verAtStart' = [verAtStart EXCEPT ![w] = stored]
    /\ overlapped' = [u \in Writers |->
                         IF u = w THEN \E v \in Writers \ {w} : InProgress(v)
                         ELSE overlapped[u] \/ InProgress(u)]
    /\ UNCHANGED <<txBase, retries, issued, result, handled, committedEv, succeededEv>>

\* The caller is done with the result of its call.
Save_Return(w) ==
    /\ pc[w] = "done"
    /\ pc' = [pc EXCEPT ![w] = "idle"]
    /\ batch' = [batch EXCEPT ![w] = NoBatch]
    /\ ov' = [ov EXCEPT ![w] = 0]
    /\ txBase' = [txBase EXCEPT ![w] = 0]
    /\ retries' = [retries EXCEPT ![w] = 0]
    /\ issued' = [issued EXCEPT ![w] = FALSE]
    /\ result' = [result EXCEPT ![w] = "none"]
    /\ handled' = [handled EXCEPT ![w] = << >>]
    /\ inputFaults' = [inputFaults EXCEPT ![w] = {}]
    /\ verAtStart' = [verAtStart EXCEPT ![w] = 0]
    /\ overlapped' = [overlapped EXCEPT ![w] = FALSE]
    /\ UNCHANGED <<confVars, repoVars, tailVars, maintVars, storeVars, committedEv, succeededEv>>

\* ---------------------------------------------------- layout A: the store
\* newEvt (eventstore/mongodb): the evt record of an event.
newEvtA(e) ==
    [aid |-> e.aid, atype |-> e.atype, version |-> e.version,
     etype |-> e.etype, data |-> e.data]

dbEventsA(b) == [i \in 1..Len(b) |-> newEvtA(b[i])]

\* The events of the batch that fail one of the checks of Save's loop.
RejectedA(b, o) ==
    {i \in 1..Len(b) :
        \/ b[i].aid # b[1].aid
        \/ b[i].atype # b[1].atype
        \/ b[i].version # o + (i - 1) + 1}

\* Precondition checks that leave out the comparison of the versions.
ValidateA_NoVersionCheck(b, o) ==
    IF Len(b) = 0 THEN "ErrMissingEvents"
    ELSE IF \E i \in 1..Len(b) : b[i].aid # b[1].aid
    THEN "ErrMismatchedEventAggregateIDs"
    ELSE IF \E i \in 1..Len(b) : b[i].atype # b[1].atype
    THEN "ErrMismatchedEventAggregateTypes"
    ELSE "ok"

\* Save's precondition checks: the loop returns at the first event that fails
\* one, with the error of the first check, in source order, that it fails.
ValidateA(b, o) ==
    IF Len(b) = 0 THEN "ErrMissingEvents"
    ELSE IF RejectedA(b, o) = {} THEN "ok"
    ELSE LET i == Min(RejectedA(b, o)) IN
         IF b[i].aid # b[1].aid THEN "ErrMismatchedEventAggregateIDs"
         ELSE IF b[i].atype # b[1].atype THEN "ErrMismatchedEventAggregateTypes"
         ELSE "ErrIncorrectEventVersion"

\* An InsertOne that is acknowledged and stores nothing.
InsertOneA_Lost(coll, aid, dbEvents) == [err |-> "ok", coll |-> coll]

\* InsertOne(aggregateRecord): the _id index refuses a second document of the id.
InsertOneA(coll, aid, dbEvents) ==
    IF aid \in DOMAIN coll
    THEN [err |-> "could not insert: duplicate key", coll |-> coll]
    ELSE [err |-> "ok",
          coll |-> [a \in DOMAIN coll \cup {aid} |->
                      IF a = aid THEN [version |-> Len(dbEvents), events |-> dbEvents]
                      ELSE coll[a]]]

\* UpdateOne whose filter names the _id alone.
UpdateOneA_NoVersionFilter(coll, aid, o, dbEvents) ==
    IF aid \in DOMAIN coll
    THEN [err |-> "ok",
          coll |-> [coll EXCEPT ![aid] = [version |-> @.version + Len(dbEvents),
                                          events |-> @.events \o dbEvents]]]
    ELSE [err |-> "ErrEventConflictFromOtherSave", coll |-> coll]

\* UpdateOne({_id, version: originalVersion}, {$push events, $inc version}).
UpdateOneA(coll, aid, o, dbEvents) ==
    IF aid \in DOMAIN coll /\ coll[aid].version = o
    THEN [err |-> "ok",
          coll |-> [coll EXCEPT ![aid] = [version |-> @.version + Len(dbEvents),
                                          events |-> @.events \o dbEvents]]]
    ELSE [err |-> "ErrEventConflictFromOtherSave", coll |-> coll]

StoredVersionA(aid) == IF aid \in DOMAIN aggregates THEN aggregates[aid].version ELSE 0

\* Save, layout A, from the call to its first storage operation.
SaveA_Begin(w) ==
    /\ layout = "A"
    /\ pc[w] = "idle"
    /\ \E o \in 0..MaxVersion : \E b \in Batches(o) :
          IF ValidateA(b, o) # "ok"
          THEN Reject(w, b, o, ValidateA(b, o),
                      IF Len(b) = 0 THEN 0 ELSE StoredVersionA(b[1].aid))
          ELSE Accept(w, b, o, "store", StoredVersionA(b[1].aid))
    /\ UNCHANGED <<confVars, repoVars, tailVars, maintVars, storeVars>>

\* Save, layout A: the one storage operation; Save returns here when the
\* operation failed or no event handler is configured.
SaveA_Store(w) ==
    /\ layout = "A"
    /\ pc[w] = "store"
    /\ \E fails \in BOOLEAN :
         LET aid == batch[w][1].aid
             op == IF ov[w] = 0
                   THEN InsertOneA(aggregates, aid, dbEventsA(batch[w]))
                   ELSE UpdateOneA(aggregates, aid, ov[w], dbEventsA(batch[w]))
             err == IF ~fails THEN op.err
                    ELSE IF ov[w] = 0 THEN "could not insert: storage failure"
                    ELSE "could not update: storage failure"
         IN /\ aggregates' = IF fails THEN aggregates ELSE op.coll
            /\ IF err = "ok" /\ handlerSet
               THEN /\ pc' = [pc EXCEPT ![w] = "handle"]
                    /\ UNCHANGED <<batch, ov, txBase, retries, retVars, histVars>>
               ELSE Return(w, err, << >>)
    /\ issued' = [issued EXCEPT ![w] = TRUE]
    /\ UNCHANGED <<confVars, repoVars, tailVars, maintVars, events, eventsById, streams>>

\* A loop that does not hand the handler the event it fails on.
HandlerCalls_WithoutFailed(b, failAt) ==
    IF failAt = 0 THEN b ELSE SubSeq(b, 1, failAt - 1)

\* The events HandleEvent is called with when its call number failAt is the
\* first to fail (0: none fails): the loop returns from that call.
HandlerCalls(b, failAt) ==
    IF failAt = 0 THEN b ELSE SubSeq(b, 1, failAt)

\* The event handler loop after the write: the handler is called for the
\* events in order and Save returns at the first call that fails.
Save_Handle(w) ==
    /\ pc[w] = "handle"
    /\ \E failAt \in 0..Len(batch[w]) :
          Return(w, IF failAt = 0 THEN "ok"
                    ELSE IF layout = "A" THEN "EventHandlerError"
                    ELSE "CouldNotHandleEventError",
                 HandlerCalls(batch[w], failAt))
    /\ UNCHANGED <<confVars, repoVars, tailVars, maintVars, storeVars, issued>>

\* Load's decoding of one record (eventstore.go 288-311, eventmaintenance.go
\* 529-542): only a record with a payload is looked up in the registry and
\* unmarshalled.
DecodeErr(d) ==
    IF d.data = NoData THEN "ok"
    ELSE IF d.etype \notin Registered THEN "could not create event data"
    ELSE IF d.data = BadData THEN "could not unmarshal event data"
    ELSE "ok"

\* Load's loop over the records in the order it has them: it returns nil
\* events and the error of the first record that does not decode.
DecodeAll(docs) ==
    LET failing == {i \in 1..Len(docs) : DecodeErr(docs[i]) # "ok"}
    IN IF failing # {}
       THEN [err |-> DecodeErr(docs[Min(failing)]), events |-> << >>]
       ELSE [err |-> "ok",
             events |-> [i \in 1..Len(docs) |->
                           EventOf(docs[i].aid, docs[i].atype, docs[i].version,
                                   docs[i].etype, docs[i].data)]]

\* Load, layout A: FindOne by _id, then the embedded list in stored order.
LoadA(aid) ==
    IF aid \notin DOMAIN aggregates
    THEN [err |-> "ErrAggregateNotFound", events |-> << >>]
    ELSE DecodeAll(aggregates[aid].events)

\* ---------------------------------------------------- layout B: the store
\* newEvt (eventstore/mongodb_v2), then the position Save gives the event: the
\* document's _id and, mirrored, Metadata["position"].
newEvtB(e, position) ==
    [pos |-> position, aid |-> e.aid, atype |-> e.atype, version |-> e.version,
     etype |-> e.etype, data |-> e.data, metaPosition |-> position]

dbEventsB(b, base) == [i \in 1..Len(b) |-> newEvtB(b[i], base + (i - 1) + 1)]

\* The stream document Save builds from the last event of the batch.
strm(b, base) ==
    [position |-> base + Len(b), atype |-> b[Len(b)].atype, version |-> b[Len(b)].version]

RejectedB(b, o) ==
    {i \in 1..Len(b) :
        \/ b[i].aid # b[1].aid
        \/ b[i].version # o + (i - 1) + 1}

\* Precondition checks that leave out the comparison of the aggregate ids.
ValidateB_NoIdCheck(b, o) ==
    IF Len(b) = 0 THEN "ErrNoEventsToAppend"
    ELSE IF \E i \in 1..Len(b) : b[i].version # o + (i - 1) + 1
    THEN "ErrIncorrectEventVersion"
    ELSE "ok"

\* Save's precondition checks, layout B.
ValidateB(b, o) ==
    IF Len(b) = 0 THEN "ErrNoEventsToAppend"
    ELSE IF RejectedB(b, o) = {} THEN "ok"
    ELSE LET i == Min(RejectedB(b, o)) IN
         IF b[i].aid # b[1].aid THEN "ErrInvalidEvent"
         ELSE "ErrIncorrectEventVersion"

InTransaction(w) == pc[w] \in {"txInc", "txInsert", "txStream", "txCommit"}

\* No open transaction is seen to have written the "$all" document.
HoldsAll_Never(w) == FALSE

\* The writers whose open transaction has written the "$all" document.
HoldsAll(w) == pc[w] \in {"txInsert", "txStream", "txCommit"}

\* Positions the writers in progress may still take from the counter.
Claimed == LET RECURSIVE Sum(_)
               Sum(S) == IF S = {} THEN 0
                         ELSE LET u == CHOOSE x \in S : TRUE
                              IN Len(batch[u]) + Sum(S \ {u})
           IN Sum({u \in Writers : InTransaction(u)})

AllPosition == IF AllStream \in DOMAIN streams THEN streams[AllStream].position ELSE 0

\* The collection Save writes the stream document to.
StreamDocs == IF useCustomPrefix THEN eventsById ELSE streams

EventIds == {events[i].pos : i \in 1..Len(events)}

\* The _id of an inserted document as InsertMany reports it: an int32 when
\* the position fits one.
MaxInt32 == 2147483647

FitsInt32(n) == n <= MaxInt32

StoredVersionB(aid) == IF aid \in DOMAIN StreamDocs THEN StreamDocs[aid].version ELSE 0

\* Save, layout B, from the call to the start of the transaction.
SaveB_Begin(w) ==
    /\ layout = "B"
    /\ pc[w] = "idle"
    /\ \E o \in 0..MaxVersion : \E b \in Batches(o) :
          IF ValidateB(b, o) # "ok"
          THEN Reject(w, b, o, ValidateB(b, o),
                      IF Len(b) = 0 THEN 0 ELSE StoredVersionB(b[1].aid))
          ELSE /\ AllPosition + Claimed + Len(b) <= MaxPos
               /\ Accept(w, b, o, "txInc", StoredVersionB(b[1].aid))
    /\ UNCHANGED <<confVars, repoVars, tailVars, maintVars, storeVars>>

\* A transaction that ends without committing and yet leaves behind the
\* event documents it has inserted.
AbortB_LeavesEvents(w, cause) ==
    /\ Return(w, cause, << >>)
    /\ issued' = [issued EXCEPT ![w] = TRUE]
    /\ events' = IF pc[w] \in {"txStream", "txCommit"}
                 THEN events \o dbEventsB(batch[w], txBase[w])
                 ELSE events
    /\ UNCHANGED <<confVars, repoVars, tailVars, maintVars, aggregates, eventsById, streams>>

\* The transaction ends without committing: Save returns ErrCouldNotSaveEvents
\* and none of the transaction's writes reaches the collections.
AbortB(w, cause) ==
    /\ Return(w, cause, << >>)
    /\ issued' = [issued EXCEPT ![w] = TRUE]
    /\ UNCHANGED <<confVars, repoVars, tailVars, maintVars, storeVars>>

\* FindOneAndUpdate of "$all" in the transaction: it reads the position and
\* adds the batch length.
SaveB_TxInc(w) ==
    /\ layout = "B"
    /\ pc[w] = "txInc"
    /\ \A u \in Writers \ {w} : ~HoldsAll(u)
    /\ IF AllStream \notin DOMAIN streams
       THEN AbortB(w, "ErrCouldNotSaveEvents: could not increment global position")
       ELSE /\ pc' = [pc EXCEPT ![w] = "txInsert"]
            /\ txBase' = [txBase EXCEPT ![w] = streams[AllStream].position]
            /\ issued' = [issued EXCEPT ![w] = TRUE]
            /\ UNCHANGED <<confVars, repoVars, tailVars, maintVars, storeVars, batch, ov, retries, retVars, histVars>>

\* The same operation while another open transaction has written "$all": a
\* write conflict, after which WithTransaction runs the callback again.
SaveB_TxConflict(w) ==
    /\ layout = "B"
    /\ pc[w] = "txInc"
    /\ \E u \in Writers \ {w} : HoldsAll(u)
    /\ retries[w] < MaxRetries
    /\ retries' = [retries EXCEPT ![w] = @ + 1]
    /\ issued' = [issued EXCEPT ![w] = TRUE]
    /\ UNCHANGED <<confVars, repoVars, tailVars, maintVars, storeVars, pc, batch, ov, txBase, retVars, histVars>>

\* InsertMany of the events, then the check of the inserted ids.
SaveB_TxInsert(w) ==
    /\ layout = "B"
    /\ pc[w] = "txInsert"
    /\ LET docs == dbEventsB(batch[w], txBase[w])
           ids == {docs[i].pos : i \in 1..Len(docs)}
       IN IF ids \cap EventIds # {}
          THEN AbortB(w, "ErrCouldNotSaveEvents: could not insert events")
          ELSE IF \E p \in ids : ~FitsInt32(p)
          THEN AbortB(w, "ErrCouldNotSaveEvents: inserted event not found")
          ELSE /\ pc' = [pc EXCEPT ![w] = "txStream"]
               /\ UNCHANGED <<confVars, repoVars, tailVars, maintVars, storeVars, batch, ov, txBase, retries, issued,
                              retVars, histVars>>

\* The stream document: InsertOne when originalVersion is 0, else
\* FindOneAndUpdate by _id with upsert, whose result is ErrNoDocuments when
\* no document matched.
SaveB_TxStream(w) ==
    /\ layout = "B"
    /\ pc[w] = "txStream"
    /\ LET aid == batch[w][1].aid
       IN IF ov[w] = 0 /\ aid \in DOMAIN StreamDocs
          THEN AbortB(w, "ErrCouldNotSaveEvents: could not insert stream")
          ELSE IF ov[w] # 0 /\ aid \notin DOMAIN StreamDocs
          THEN AbortB(w, "ErrCouldNotSaveEvents: could not update stream")
          ELSE /\ pc' = [pc EXCEPT ![w] = "txCommit"]
               /\ UNCHANGED <<confVars, repoVars, tailVars, maintVars, storeVars, batch, ov, txBase, retries, issued,
                              retVars, histVars>>

\* The stream document after the transaction's write: the document built
\* from the batch when InsertOne wrote it (originalVersion 0); on the update
\* path the $set names position, version and updated_at, so the stored
\* document keeps its aggregate_type.
StreamAfter(w) ==
    LET aid == batch[w][1].aid
        doc == strm(batch[w], txBase[w])
    IN IF ov[w] = 0
       THEN doc
       ELSE [StreamDocs[aid] EXCEPT !.position = doc.position,
                                    !.version = doc.version]

\* The collections after the transaction of w commits.
CommittedStreams(w) ==
    LET aid == batch[w][1].aid
        inc == [streams EXCEPT ![AllStream] =
                   [position |-> @.position + Len(batch[w])]]
    IN IF useCustomPrefix THEN inc
       ELSE [a \in DOMAIN inc \cup {aid} |-> IF a = aid THEN StreamAfter(w) ELSE inc[a]]

CommittedEventsById(w) ==
    LET aid == batch[w][1].aid
    IN IF useCustomPrefix
       THEN [a \in DOMAIN eventsById \cup {aid} |->
                IF a = aid THEN StreamAfter(w) ELSE eventsById[a]]
       ELSE eventsById

\* The transaction commits: its writes reach the collections together.
SaveB_TxCommit(w) ==
    /\ layout = "B"
    /\ pc[w] = "txCommit"
    /\ events' = events \o dbEventsB(batch[w], txBase[w])
    /\ streams' = CommittedStreams(w)
    /\ eventsById' = CommittedEventsById(w)
    /\ IF handlerSet
       THEN /\ pc' = [pc EXCEPT ![w] = "handle"]
            /\ UNCHANGED <<batch, ov, txBase, retries, retVars, histVars>>
       ELSE Return(w, "ok", << >>)
    /\ UNCHANGED <<confVars, repoVars, tailVars, maintVars, aggregates, issued>>

\* A failure inside WithTransaction: the session cannot be started, the
\* context is cancelled, an operation or the commit fails, or the retries
\* time out.
SaveB_TxFail(w) ==
    /\ layout = "B"
    /\ InTransaction(w)
    /\ AbortB(w, "ErrCouldNotSaveEvents: storage failure")

\* Find({aggregate_id: aid}) on the events collection, in insertion order.
FindB(aid) == SelectSeq(events, LAMBDA d : d.aid = aid)

\* Load, layout B, when the cursor gives the documents in insertion order.
LoadB(aid) == DecodeAll(FindB(aid))

\* --------------------------------------------------- Replace and Load calls
\* EventStore.Replace of both packages (mongodb/eventmaintenance.go,
\* mongodb_v2/eventmaintenance.go) and EventStore.Load as a call. Layout B's
\* Replace runs its operations on ctx inside the callback of
\* CollectionExecWithTransaction, not on txCtx: each is an operation of its
\* own and takes effect when it is issued.
NoEvent == EventOf("", "", 0, "", NoData)
NoLoad == [err |-> "none", events |-> << >>]
NoRename == [from |-> "", to |-> "", err |-> "none"]

\* The maintenance caller makes one call at a time: none of Replace, Load,
\* RenameEvent, Remove, Clear is between its call and the return of its result.
MaintIdle ==
    /\ rpc = "idle"
    /\ loaded = NoLoad
    /\ renamed = NoRename
    /\ rmPc = "idle"
    /\ clPc = "idle"

InitMaint ==
    /\ rpc = "idle"
    /\ rEvent = NoEvent
    /\ rFound = 0
    /\ rResult = "none"
    /\ loaded = NoLoad
    /\ loadArg = ""
    /\ cursorDocs = << >>
    /\ renamed = NoRename

\* The events a maintenance caller passes to Replace: a new payload for
\* (stream, version).
ReplaceArgs ==
    {EventOf(aid, AggregateTypeOf(aid), v, "e1", "d1") :
        <<aid, v>> \in AggregateIDs \X (1..(MaxVersion + 1))}

\* CountDocuments of the existence check. A failed count is (0, err).
CountDocuments(aid, fails) ==
    IF fails THEN [n |-> 0, err |-> "storage failure"]
    ELSE [n |-> IF layout = "A" THEN (IF aid \in DOMAIN aggregates THEN 1 ELSE 0)
                ELSE Len(FindB(aid)),
          err |-> "ok"]

\* if n, err := CountDocuments(...); n == 0 { ErrAggregateNotFound }
\* else if err != nil { the storage error }.
ExistenceCheck(c) ==
    IF c.n = 0 THEN "ErrAggregateNotFound"
    ELSE IF c.err # "ok" THEN "EventStoreError"
    ELSE "ok"

\* What can go wrong before the replacement is looked up: the session of
\* layout B cannot be started, the count fails.
ReplaceFaults == IF layout = "B" THEN {"none", "session", "count"} ELSE {"none", "count"}

\* Replace, from the call to the end of its existence check.
Replace_Call ==
    /\ rpc = "idle"
    /\ \E e \in ReplaceArgs, fault \in ReplaceFaults :
          LET r == IF fault = "session" THEN "EventStoreError"
                   ELSE ExistenceCheck(CountDocuments(e.aid, fault = "count"))
          IN /\ rEvent' = e
             /\ IF r # "ok"
                THEN rpc' = "done" /\ rResult' = r
                ELSE /\ rpc' = (IF layout = "A" THEN "update" ELSE "find")
                     /\ rResult' = "none"
    /\ UNCHANGED <<confVars, repoVars, storeVars, callVars, retVars, histVars, tailVars, remVars, renamed,
                   rFound, loaded, loadArg, cursorDocs>>

\* Replace called by the maintenance caller.
Replace_Begin == MaintIdle /\ Replace_Call

\* Replace called on this store while a Remove called on another store
\* instance of the same database (a handle and db.mtx of its own) is under
\* way.
Replace_Beside == rmPc \in {"events", "snapshots"} /\ Replace_Call

\* The first element of the list with the version, 0 when there is none.
Positional_Last(evs, v) ==
    IF \E i \in 1..Len(evs) : evs[i].version = v THEN Len(evs) ELSE 0

\* The element the positional operator of "events.$" names: the first one
\* that matches "events.version".
Positional(evs, v) ==
    LET m == {i \in 1..Len(evs) : evs[i].version = v}
    IN IF m = {} THEN 0 ELSE Min(m)

\* Replace, layout A: UpdateOne({_id, events.version}, {$set: {events.$: e}}).
ReplaceA_Update ==
    /\ layout = "A"
    /\ rpc = "update"
    /\ \E fails \in BOOLEAN :
          LET aid == rEvent.aid
              i == IF aid \in DOMAIN aggregates
                   THEN Positional(aggregates[aid].events, rEvent.version)
                   ELSE 0
          IN IF fails
             THEN rResult' = "ErrCouldNotSaveEvents" /\ UNCHANGED aggregates
             ELSE IF i = 0
             THEN rResult' = "ErrInvalidEvent" /\ UNCHANGED aggregates
             ELSE /\ rResult' = "ok"
                  /\ aggregates' = [aggregates EXCEPT ![aid].events[i] = newEvtA(rEvent)]
    /\ rpc' = "done"
    /\ UNCHANGED <<confVars, repoVars, events, eventsById, streams, callVars, retVars, histVars,
                   tailVars, remVars, renamed, rEvent, rFound, loaded, loadArg, cursorDocs>>

\* The first document of the events collection with the stream id and
\* version, 0 when there is none.
FirstMatchB(aid, v) ==
    LET m == {i \in 1..Len(events) : events[i].aid = aid /\ events[i].version = v}
    IN IF m = {} THEN 0 ELSE Min(m)

\* Replace, layout B: FindOne({aggregate_id, version}) for the original.
ReplaceB_Find ==
    /\ layout = "B"
    /\ rpc = "find"
    /\ \E fails \in BOOLEAN :
          LET i == FirstMatchB(rEvent.aid, rEvent.version)
          IN IF fails
             THEN rpc' = "done" /\ rResult' = "EventStoreError" /\ UNCHANGED rFound
             ELSE IF i = 0
             THEN rpc' = "done" /\ rResult' = "ErrEventNotFound" /\ UNCHANGED rFound
             ELSE rpc' = "replace" /\ rFound' = events[i].pos /\ UNCHANGED rResult
    /\ UNCHANGED <<confVars, repoVars, storeVars, callVars, retVars, histVars, tailVars, remVars, renamed,
                   rEvent, loaded, loadArg, cursorDocs>>

\* The replacement document: newEvt of the event with the original's
\* position as _id and as Metadata["position"].
ReplacementB(e, position) == newEvtB(e, position)

\* Replace, layout B: ReplaceOne({aggregate_id, version}, e). The _id of a
\* document cannot be changed by a replacement.
ReplaceB_Replace ==
    /\ layout = "B"
    /\ rpc = "replace"
    /\ \E fails \in BOOLEAN :
          LET i == FirstMatchB(rEvent.aid, rEvent.version)
              e == ReplacementB(rEvent, rFound)
          IN IF fails \/ i = 0
             THEN rResult' = "EventStoreError" /\ UNCHANGED events
             ELSE IF events[i].pos # e.pos
             THEN rResult' = "EventStoreError" /\ UNCHANGED events
             ELSE rResult' = "ok" /\ events' = [events EXCEPT ![i] = e]
    /\ rpc' = "done"
    /\ UNCHANGED <<confVars, repoVars, aggregates, eventsById, streams, callVars, retVars, histVars,
                   tailVars, remVars, renamed, rEvent, rFound, loaded, loadArg, cursorDocs>>

\* The caller of Replace has its result and is free to call again.
Replace_Return ==
    /\ rpc = "done"
    /\ rpc' = "idle"
    /\ rEvent' = NoEvent
    /\ rFound' = 0
    /\ rResult' = "none"
    /\ UNCHANGED <<confVars, repoVars, storeVars, callVars, retVars, histVars, tailVars, remVars, renamed,
                   loaded, loadArg, cursorDocs>>

\* The orders a query without a sort may return its documents in.
Orders(docs) ==
    {[i \in 1..Len(docs) |-> docs[p[i]]] : p \in Permutations(1..Len(docs))}

\* Load as a call: FindOne by _id (layout A) or Find by aggregate_id
\* (layout B, no sort option), then the decoding loop over the records in
\* the order the store gave them. Layout B's loop runs while cursor.Next
\* gives a document, and Next gives none at the end of the result and also
\* when the cursor fails; the loop is followed by `return events, nil` with
\* no look at cursor.Err(), so a cursor that fails after k documents ends
\* the call as the end of the result does.
Load_Call ==
    /\ MaintIdle
    /\ \E aid \in AggregateIDs, fails \in BOOLEAN :
          /\ loadArg' = aid
          /\ IF fails
             THEN loaded' = [err |-> "EventStoreError", events |-> << >>] /\ cursorDocs' = << >>
             ELSE IF layout = "A"
             THEN /\ loaded' = LoadA(aid)
                  /\ cursorDocs' = (IF aid \in DOMAIN aggregates
                                    THEN aggregates[aid].events ELSE << >>)
             ELSE \E docs \in Orders(FindB(aid)) : \E k \in 0..Len(docs) :
                     /\ cursorDocs' = SubSeq(docs, 1, k)
                     /\ loaded' = DecodeAll(SubSeq(docs, 1, k))
    /\ UNCHANGED <<confVars, repoVars, storeVars, callVars, retVars, histVars, tailVars, remVars, renamed,
                   rpc, rEvent, rFound, rResult>>

\* The caller of Load drops the result.
Load_Return ==
    /\ loaded # NoLoad
    /\ loaded' = NoLoad
    /\ loadArg' = ""
    /\ cursorDocs' = << >>
    /\ UNCHANGED <<confVars, repoVars, storeVars, callVars, retVars, histVars, tailVars, remVars, renamed,
                   rpc, rEvent, rFound, rResult>>

\* RenameEvent(from, to): the callers' arguments.
RenameArgs == {<<"e1", "eX">>, <<"eX", "e1">>}

\* {$set: {"events.$.event_type": to}} on a document that matches
\* {"events.event_type": from}: the positional operator names the first
\* element of the array that matches the filter, and only that one is set.
RenameDocA(doc, from, to) ==
    LET m == {i \in 1..Len(doc.events) : doc.events[i].etype = from}
    IN IF m = {} THEN doc
       ELSE [doc EXCEPT !.events[Min(m)].etype = to]

\* UpdateMany of layout A: every aggregate document that matches.
RenameManyA(coll, from, to) ==
    [aid \in DOMAIN coll |-> RenameDocA(coll[aid], from, to)]

\* UpdateMany({event_type: from}, {$set: {event_type: to}}) of layout B:
\* every event document that matches.
RenameManyB(coll, from, to) ==
    [i \in 1..Len(coll) |->
        IF coll[i].etype = from THEN [coll[i] EXCEPT !.etype = to] ELSE coll[i]]

\* RenameEvent, layout A: one UpdateMany on the aggregates collection.
RenameEventA ==
    /\ layout = "A"
    /\ MaintIdle
    /\ \E a \in RenameArgs, fails \in BOOLEAN :
          IF fails
          THEN /\ renamed' = [from |-> a[1], to |-> a[2], err |-> "could not save events"]
               /\ UNCHANGED aggregates
          ELSE /\ renamed' = [from |-> a[1], to |-> a[2], err |-> "ok"]
               /\ aggregates' = RenameManyA(aggregates, a[1], a[2])
    /\ UNCHANGED <<confVars, repoVars, events, eventsById, streams, callVars, retVars, histVars,
                   tailVars, remVars, rpc, rEvent, rFound, rResult, loaded, loadArg, cursorDocs>>

\* RenameEvent, layout B: one UpdateMany in a transaction on the events
\* collection.
RenameEventB ==
    /\ layout = "B"
    /\ MaintIdle
    /\ \E a \in RenameArgs, fails \in BOOLEAN :
          IF fails
          THEN /\ renamed' = [from |-> a[1], to |-> a[2], err |-> "could not rename event"]
               /\ UNCHANGED events
          ELSE /\ renamed' = [from |-> a[1], to |-> a[2], err |-> "ok"]
               /\ events' = RenameManyB(events, a[1], a[2])
    /\ UNCHANGED <<confVars, repoVars, aggregates, eventsById, streams, callVars, retVars, histVars,
                   tailVars, remVars, rpc, rEvent, rFound, rResult, loaded, loadArg, cursorDocs>>

\* The caller of RenameEvent has its result and is free to call again.
Rename_Return ==
    /\ renamed # NoRename
    /\ renamed' = NoRename
    /\ UNCHANGED <<confVars, repoVars, storeVars, callVars, retVars, histVars, tailVars, remVars,
                   rpc, rEvent, rFound, rResult, loaded, loadArg, cursorDocs>>

\* The stores Replace and Load are called on: what Save calls leave behind.
\* A stream holds versions 1..n; a record is of a registered type with a
\* payload, of an unregistered type without or with a payload, or of a
\* registered type with a payload that no longer unmarshals.
RecordKinds == {<<"e1", "d0">>, <<"eX", NoData>>, <<"eX", "d0">>, <<"e1", BadData>>}

KindSeqs == UNION {[1..n -> RecordKinds] : n \in 0..MaxVersion}

StoresA ==
    {[aid \in {a \in AggregateIDs : Len(f[a]) > 0} |->
        [version |-> Len(f[aid]),
         events |-> dbEventsA([i \in 1..Len(f[aid]) |->
                       EventOf(aid, AggregateTypeOf(aid), i, f[aid][i][1], f[aid][i][2])])]] :
     f \in [AggregateIDs -> KindSeqs]}

\* Layout B: the events collection in insertion order, record i at position i.
CountOf(o, aid, i) == Cardinality({j \in 1..i : o[j] = aid})

Owners ==
    {o \in UNION {[1..n -> AggregateIDs] : n \in 0..MaxPos} :
        \A aid \in AggregateIDs : CountOf(o, aid, Len(o)) <= MaxVersion}

EventsB(o, k) ==
    [i \in 1..Len(o) |->
        newEvtB(EventOf(o[i], AggregateTypeOf(o[i]), CountOf(o, o[i], i), k[i][1], k[i][2]), i)]

StreamsB(o) ==
    [a \in {AllStream} \cup {o[i] : i \in 1..Len(o)} |->
        IF a = AllStream THEN [position |-> Len(o)]
        ELSE LET last == CHOOSE i \in 1..Len(o) : o[i] = a /\ \A j \in (i + 1)..Len(o) : o[j] # a
             IN [position |-> last, atype |-> AggregateTypeOf(a), version |-> CountOf(o, a, Len(o))]]

\* ------------------------------------------------- Repo.FindCustom, FindCustomIter
\* The read-model repository's FindCustom and FindCustomIter (repo/mongodb).
\* An error value is the chain errors.Is walks, outermost first; a call's
\* input is the repo's fields and what the callback f does when called.
MaxDocs == 2

NoErr == << >>

\* A nil *mongo.Cursor; a nil result (slice or eh.Iter).
NilCursor == [nil |-> TRUE, docs |-> << >>, closeFails |-> FALSE]
Nil == [nil |-> TRUE, items |-> << >>, iter |-> NilCursor]

\* The result of FindCustom; the iter of FindCustomIter.
Items(docs) == [nil |-> FALSE, items |-> docs, iter |-> NilCursor]
IterOf(c) == [nil |-> FALSE, items |-> << >>, iter |-> c]

NoFind == [fn |-> "none", newEntity |-> FALSE, useCustomPrefix |-> FALSE,
           f |-> [cursor |-> NilCursor, err |-> NoErr]]
NoOut == [err |-> NoErr, result |-> Nil, called |-> FALSE, returned |-> FALSE]

\* DefaultBackOff.Do (backoff package). fn is given by what it returns at
\* its first, second, ... invocation: nil or an error.
MaxTries == 3

DoErrors == {"err1", "err2"}
FnRuns == [1..MaxTries -> {"nil"} \cup DoErrors]
DoInputs == {[retries |-> n, fn |-> f] : n \in (-1)..MaxTries, f \in FnRuns}

NoDo == [retries |-> 0, fn |-> [k \in 1..MaxTries |-> "nil"]]
NoDone == [err |-> "nil", calls |-> 0, returned |-> FALSE]

InitBack == doIn = NoDo /\ doOut = NoDone

InitRepo == findIn = NoFind /\ findOut = NoOut /\ InitBack

\* errors.Is(err, target).
ErrorsIs(err, target) == \E i \in 1..Len(err) : err[i] = target

\* &eh.RepoError{Err: e, Op: eh.RepoOpFindQuery}.
RepoError(e) == <<"RepoError">> \o e

\* What f returns: a cursor over documents that decode into the entity or
\* do not, whose Close fails or not; no cursor; an error.
Cursors ==
    {[nil |-> FALSE, docs |-> d, closeFails |-> c] :
        d \in UNION {[1..n -> {"doc", "undecodable"}] : n \in 0..MaxDocs}, c \in BOOLEAN}

Callbacks ==
    {[cursor |-> NilCursor, err |-> NoErr], [cursor |-> NilCursor, err |-> <<"query failed">>]}
        \cup {[cursor |-> c, err |-> NoErr] : c \in Cursors}

FindInputs ==
    {[fn |-> fn, newEntity |-> ne, useCustomPrefix |-> cp, f |-> f] :
        fn \in {"FindCustom", "FindCustomIter"}, ne \in BOOLEAN, cp \in BOOLEAN,
        f \in Callbacks}

Returned(e, res, c) ==
    [err |-> e, result |-> res, called |-> c, returned |-> TRUE]

\* The checks FindCustom and FindCustomIter make before they use the cursor;
\* NoErr when they all pass.
FindChecks(in) ==
    IF ~in.newEntity THEN RepoError(<<"ErrModelNotSet">>)
    ELSE IF in.f.err # NoErr THEN RepoError(<<"could not find">> \o in.f.err)
    ELSE IF in.f.cursor.nil THEN RepoError(<<"no cursor">>)
    ELSE NoErr

FindCustom(in) ==
    LET c == in.f.cursor
    IN IF FindChecks(in) # NoErr THEN Returned(FindChecks(in), Nil, in.newEntity)
       ELSE IF \E i \in 1..Len(c.docs) : c.docs[i] = "undecodable"
       THEN Returned(RepoError(<<"could not unmarshal", "decode error">>), Nil, TRUE)
       ELSE IF c.closeFails
       THEN Returned(RepoError(<<"could not close cursor", "close error">>), Nil, TRUE)
       ELSE Returned(NoErr, Items(c.docs), TRUE)

FindCustomIter(in) ==
    IF FindChecks(in) # NoErr THEN Returned(FindChecks(in), Nil, in.newEntity)
    ELSE Returned(NoErr, IterOf(in.f.cursor), TRUE)

FindCustom_Call ==
    /\ findIn.fn = "FindCustom"
    /\ ~findOut.returned
    /\ findOut' = FindCustom(findIn)
    /\ UNCHANGED <<confVars, findIn, backVars, storeVars, callVars, retVars, histVars, maintVars,
                   tailVars>>

FindCustomIter_Call ==
    /\ findIn.fn = "FindCustomIter"
    /\ ~findOut.returned
    /\ findOut' = FindCustomIter(findIn)
    /\ UNCHANGED <<confVars, findIn, backVars, storeVars, callVars, retVars, histVars, maintVars,
                   tailVars>>

\* for i := 0; i < b.retries; i++ { err = fn(); if err == nil { return nil } }
\* return err: the loop from its i-th round on, err being the error so far.
RECURSIVE DoLoop(_, _, _, _)
DoLoop(n, f, i, err) ==
    IF i < n
    THEN IF f[i + 1] = "nil"
         THEN [err |-> "nil", calls |-> i + 1, returned |-> TRUE]
         ELSE DoLoop(n, f, i + 1, f[i + 1])
    ELSE [err |-> err, calls |-> i, returned |-> TRUE]

\* DefaultBackOff.Do: var err error is nil before the loop.
Do(in) == DoLoop(in.retries, in.fn, 0, "nil")

Do_Call ==
    /\ ~doOut.returned
    /\ doOut' = Do(doIn)
    /\ UNCHANGED <<confVars, findIn, findOut, doIn, storeVars, callVars, retVars, histVars,
                   maintVars, tailVars>>

\* ------------------------------------------- Remove, Clear, ensureAllStream
\* EventStore.Remove and EventStore.Clear (mongodb_v2/eventmaintenance.go),
\* EventStore.Clear of layout A and the ensureAllStream of a further store
\* instance that is constructed on the same database. Remove is three
\* transactions one after the other, Clear two drops and an insert; a
\* transaction or drop that meets a document or collection an open Save
\* transaction has written waits for that transaction.
MaxMaint == 1

Instances == {"i1"}

InitRem ==
    /\ snapshots = {}
    /\ rmPc = "idle"
    /\ rmArg = ""
    /\ rmResult = "none"
    /\ clPc = "idle"
    /\ clResult = "none"
    /\ ePc = [i \in Instances |-> "idle"]
    /\ maintCalls = 0

\* The open Save transactions that have written the stream document of id.
HoldsStream(w, id) ==
    /\ pc[w] = "txCommit"
    /\ batch[w][1].aid = id
    /\ ov[w] # 0

\* The open Save transactions that have inserted event documents.
HoldsEvents(w) == pc[w] \in {"txStream", "txCommit"}

\* A snapshot of a stream that has events is stored (by the snapshot side
\* of the store, which shares the snapshots collection).
Snapshot_Stored ==
    /\ layout = "B"
    /\ \E id \in AggregateIDs :
          /\ id \in DOMAIN streams
          /\ id \notin snapshots
          /\ snapshots' = snapshots \cup {id}
    /\ UNCHANGED <<confVars, repoVars, storeVars, callVars, retVars, histVars, tailVars, replVars,
                   rmPc, rmArg, rmResult, clPc, clResult, ePc, maintCalls>>

\* DeleteMany({_id: id}) on the streams collection.
DeleteStream_Nothing(coll, id) == coll

DeleteStream(coll, id) == [a \in DOMAIN coll \ {id} |-> coll[a]]

\* DeleteMany({aggregate_id: id}) on the events collection.
DeleteEvents(coll, id) == SelectSeq(coll, LAMBDA d : d.aid # id)

\* Remove, first transaction: the stream document.
Remove_Stream ==
    /\ layout = "B"
    /\ MaintIdle
    /\ maintCalls < MaxMaint
    /\ \E id \in AggregateIDs, fails \in BOOLEAN :
          /\ \A w \in Writers : ~HoldsStream(w, id)
          /\ rmArg' = id
          /\ IF fails
             THEN rmPc' = "done" /\ rmResult' = "could not remove events" /\ UNCHANGED streams
             ELSE /\ rmPc' = "events"
                  /\ rmResult' = "none"
                  /\ streams' = DeleteStream(streams, id)
    /\ maintCalls' = maintCalls + 1
    /\ UNCHANGED <<confVars, repoVars, aggregates, events, eventsById, callVars, retVars, histVars,
                   tailVars, replVars, snapshots, clPc, clResult, ePc>>

\* Remove, second transaction: the events.
Remove_Events ==
    /\ layout = "B"
    /\ rmPc = "events"
    /\ \E fails \in BOOLEAN :
          IF fails
          THEN rmPc' = "done" /\ rmResult' = "could not remove events" /\ UNCHANGED events
          ELSE /\ rmPc' = "snapshots"
               /\ events' = DeleteEvents(events, rmArg)
               /\ UNCHANGED rmResult
    /\ UNCHANGED <<confVars, repoVars, aggregates, streams, eventsById, callVars, retVars, histVars,
                   tailVars, replVars, snapshots, rmArg, clPc, clResult, ePc, maintCalls>>

\* Remove, third transaction: the snapshots. DeleteMany reports no error
\* when it matches nothing.
Remove_Snapshots ==
    /\ layout = "B"
    /\ rmPc = "snapshots"
    /\ \E fails \in BOOLEAN :
          IF fails
          THEN rmResult' = "could not remove events" /\ UNCHANGED snapshots
          ELSE rmResult' = "ok" /\ snapshots' = snapshots \ {rmArg}
    /\ rmPc' = "done"
    /\ UNCHANGED <<confVars, repoVars, storeVars, callVars, retVars, histVars, tailVars, replVars,
                   rmArg, clPc, clResult, ePc, maintCalls>>

\* The caller of Remove has its result and is free to call again.
Remove_Return ==
    /\ rmPc = "done"
    /\ rmPc' = "idle"
    /\ rmArg' = ""
    /\ rmResult' = "none"
    /\ UNCHANGED <<confVars, repoVars, storeVars, callVars, retVars, histVars, tailVars, replVars,
                   snapshots, clPc, clResult, ePc, maintCalls>>

\* Clear, layout A: Drop of the aggregates collection.
ClearA_Drop ==
    /\ layout = "A"
    /\ MaintIdle
    /\ maintCalls < MaxMaint
    /\ \E fails \in BOOLEAN :
          IF fails
          THEN clResult' = "could not clear collection" /\ UNCHANGED aggregates
          ELSE clResult' = "ok" /\ aggregates' = << >>
    /\ clPc' = "done"
    /\ maintCalls' = maintCalls + 1
    /\ UNCHANGED <<confVars, repoVars, events, eventsById, streams, callVars, retVars, histVars,
                   tailVars, replVars, snapshots, rmPc, rmArg, rmResult, ePc>>

\* Clear, layout B: CollectionDrop of the events collection.
ClearB_DropEvents ==
    /\ layout = "B"
    /\ MaintIdle
    /\ maintCalls < MaxMaint
    /\ \A w \in Writers : ~HoldsEvents(w)
    /\ \E fails \in BOOLEAN :
          IF fails
          THEN /\ clPc' = "done"
               /\ clResult' = "could not clear events collection"
               /\ UNCHANGED events
          ELSE clPc' = "streams" /\ clResult' = "none" /\ events' = << >>
    /\ maintCalls' = maintCalls + 1
    /\ UNCHANGED <<confVars, repoVars, aggregates, eventsById, streams, callVars, retVars, histVars,
                   tailVars, replVars, snapshots, rmPc, rmArg, rmResult, ePc>>

\* Clear, layout B: CollectionDrop of the streams collection, "$all" with it.
ClearB_DropStreams ==
    /\ layout = "B"
    /\ clPc = "streams"
    /\ \A w \in Writers : ~HoldsAll(w)
    /\ \E fails \in BOOLEAN :
          IF fails
          THEN /\ clPc' = "done"
               /\ clResult' = "could not clear streams collection"
               /\ UNCHANGED streams
          ELSE clPc' = "all" /\ streams' = << >> /\ UNCHANGED clResult
    /\ UNCHANGED <<confVars, repoVars, aggregates, events, eventsById, callVars, retVars, histVars,
                   tailVars, replVars, snapshots, rmPc, rmArg, rmResult, ePc, maintCalls>>

\* InsertOne({_id: "$all", position: 0}): the _id index refuses a second one.
InsertAll_Skipped(coll) == [err |-> "ok", coll |-> coll]

InsertAll(coll) ==
    IF AllStream \in DOMAIN coll
    THEN [err |-> "duplicate key", coll |-> coll]
    ELSE [err |-> "ok",
          coll |-> [a \in DOMAIN coll \cup {AllStream} |->
                      IF a = AllStream THEN [position |-> 0] ELSE coll[a]]]

\* Clear, layout B: the "$all" document is inserted again.
ClearB_InsertAll ==
    /\ layout = "B"
    /\ clPc = "all"
    /\ \E fails \in BOOLEAN :
          LET r == InsertAll(streams)
          IN IF fails \/ r.err # "ok"
             THEN clResult' = "could not ensure the $all stream existence"
                  /\ UNCHANGED streams
             ELSE clResult' = "ok" /\ streams' = r.coll
    /\ clPc' = "done"
    /\ UNCHANGED <<confVars, repoVars, aggregates, events, eventsById, callVars, retVars, histVars,
                   tailVars, replVars, snapshots, rmPc, rmArg, rmResult, ePc, maintCalls>>

\* The caller of Clear has its result and is free to call again.
Clear_Return ==
    /\ clPc = "done"
    /\ clPc' = "idle"
    /\ clResult' = "none"
    /\ UNCHANGED <<confVars, repoVars, storeVars, callVars, retVars, histVars, tailVars, replVars,
                   snapshots, rmPc, rmArg, rmResult, ePc, maintCalls>>

\* ensureAllStream of a store instance under construction: FindOne of "$all".
Ensure_Find(i) ==
    /\ layout = "B"
    /\ ePc[i] = "idle"
    /\ \E fails \in BOOLEAN :
          ePc' = [ePc EXCEPT ![i] = IF fails THEN "failed"
                                    ELSE IF AllStream \in DOMAIN streams THEN "ready"
                                    ELSE "insert"]
    /\ UNCHANGED <<confVars, repoVars, storeVars, callVars, retVars, histVars, tailVars, replVars,
                   snapshots, rmPc, rmArg, rmResult, clPc, clResult,
                   maintCalls>>

\* ensureAllStream after ErrNoDocuments: InsertOne of "$all".
Ensure_Insert(i) ==
    /\ layout = "B"
    /\ ePc[i] = "insert"
    /\ \E fails \in BOOLEAN :
          LET r == InsertAll(streams)
          IN IF fails \/ r.err # "ok"
             THEN ePc' = [ePc EXCEPT ![i] = "failed"] /\ UNCHANGED streams
             ELSE ePc' = [ePc EXCEPT ![i] = "ready"] /\ streams' = r.coll
    /\ UNCHANGED <<confVars, repoVars, aggregates, events, eventsById, callVars, retVars, histVars,
                   tailVars, replVars, snapshots, rmPc, rmArg, rmResult, clPc, clResult, maintCalls>>

\* --------------------------------------------- the change feed and its tailer
\* BasicMongoDB.CollectionWatchChangeStream and listenForChanges
\* (mongodb_factory.go). The records committed to the watched collection are
\* numbered 1, 2, ... in commit order and the resume marker of a record is
\* its number. A stream opened with a resume marker returns the records
\* after it; one opened without returns the records committed after it was
\* opened. The options are the caller's and listenForChanges passes them to
\* every Watch as they are.
NoToken == -1

\* errChan: make(chan error, 10).
ErrChanCap == 10

OptTokens == {NoToken, 0}

\* A Watch whose stream, when re-opened, starts at the beginning of the
\* collection's history.
WatchStart_Rewind(o) == IF drops = 0 THEN committed ELSE 0

\* Watch(ctx, pipeline, opts...): where the new stream starts.
WatchStart(o) == IF o = NoToken THEN committed ELSE o

\* A record is committed to the watched collection.
Commit ==
    /\ committed < MaxRecords
    /\ committed' = committed + 1
    /\ UNCHANGED <<saveVars, opts, fpc, subscribedAt, resumeToken, tpc, cursor, current, streamErr, drops,
                   delivered, changeChanClosed, consumerActive, errChanLen,
                   errChanClosed, ctxDone, cctxDone, mtx, closeWG, closePc>>

\* The goroutine starts: closeWG.Add(1).
listenForChanges_Start ==
    /\ tpc = "start"
    /\ tpc' = "select"
    /\ closeWG' = closeWG + 1
    /\ UNCHANGED <<saveVars, committed, opts, fpc, subscribedAt, resumeToken, cursor, current, streamErr,
                   drops, delivered, changeChanClosed, consumerActive, errChanLen,
                   errChanClosed, ctxDone, cctxDone, mtx, closePc>>

\* select: return when db.cctx is done (the deferred close(changeChan) and
\* closeWG.Done() run), else go on to open a stream.
listenForChanges_Select ==
    /\ tpc = "select"
    /\ IF cctxDone
       THEN /\ tpc' = "exited"
            /\ changeChanClosed' = TRUE
            /\ closeWG' = closeWG - 1
       ELSE /\ tpc' = "watch"
            /\ UNCHANGED <<changeChanClosed, closeWG>>
    /\ UNCHANGED <<saveVars, committed, opts, fpc, subscribedAt, resumeToken, cursor, current, streamErr,
                   drops, delivered, consumerActive, errChanLen, errChanClosed,
                   ctxDone, cctxDone, mtx, closePc>>

\* Under db.mtx, Watch(ctx, pipeline, opts...): it fails when ctx is
\* cancelled and may fail otherwise; after a failure the goroutine sleeps and
\* starts the loop again.
listenForChanges_Watch ==
    /\ tpc = "watch"
    /\ mtx = "free"
    /\ \E ok \in BOOLEAN :
          /\ ok => ~ctxDone
          /\ IF ok
             THEN /\ tpc' = "next"
                  /\ cursor' = WatchStart(opts)
                  /\ streamErr' = FALSE
                  /\ subscribedAt' = IF subscribedAt = NoToken
                                     THEN WatchStart(opts) ELSE subscribedAt
             ELSE /\ tpc' = "select"
                  /\ UNCHANGED <<cursor, streamErr, subscribedAt>>
    /\ UNCHANGED <<saveVars, committed, opts, fpc, resumeToken, current, drops, delivered,
                   changeChanClosed, consumerActive, errChanLen, errChanClosed,
                   ctxDone, cctxDone, mtx, closeWG, closePc>>

\* stream.Next(ctx) returns true: the stream has a next record.
listenForChanges_Next ==
    /\ tpc = "next"
    /\ ~ctxDone
    /\ cursor < committed
    /\ current' = cursor + 1
    /\ cursor' = cursor + 1
    /\ tpc' = "send"
    /\ UNCHANGED <<saveVars, committed, opts, fpc, subscribedAt, resumeToken, streamErr, drops, delivered,
                   changeChanClosed, consumerActive, errChanLen, errChanClosed,
                   ctxDone, cctxDone, mtx, closeWG, closePc>>

\* stream.Next(ctx) returns false: ctx is cancelled or the stream has failed.
listenForChanges_NextFails ==
    /\ tpc = "next"
    /\ ctxDone \/ drops < MaxDrops
    /\ streamErr' = TRUE
    /\ drops' = IF ctxDone THEN drops ELSE drops + 1
    /\ tpc' = "report"
    /\ UNCHANGED <<saveVars, committed, opts, fpc, subscribedAt, resumeToken, cursor, current, delivered,
                   changeChanClosed, consumerActive, errChanLen, errChanClosed,
                   ctxDone, cctxDone, mtx, closeWG, closePc>>

\* changeChan <- stream.Current: the channel has no buffer, the send is the
\* consumer's receive.
listenForChanges_Send ==
    /\ tpc = "send"
    /\ consumerActive
    /\ delivered' = Append(delivered, current)
    /\ tpc' = "next"
    /\ UNCHANGED <<saveVars, committed, opts, fpc, subscribedAt, resumeToken, cursor, current, streamErr,
                   drops, changeChanClosed, consumerActive, errChanLen, errChanClosed,
                   ctxDone, cctxDone, mtx, closeWG, closePc>>

\* if err := stream.Err(); err != nil { db.errChan <- ... }: the send waits
\* for room in the buffer.
listenForChanges_Report ==
    /\ tpc = "report"
    /\ IF streamErr
       THEN /\ errChanLen < ErrChanCap
            /\ errChanLen' = errChanLen + 1
       ELSE UNCHANGED errChanLen
    /\ tpc' = "token"
    /\ UNCHANGED <<saveVars, committed, opts, fpc, subscribedAt, resumeToken, cursor, current, streamErr,
                   drops, delivered, changeChanClosed, consumerActive, errChanClosed,
                   ctxDone, cctxDone, mtx, closeWG, closePc>>

\* *resumeToken = stream.ResumeToken().
listenForChanges_Token ==
    /\ tpc = "token"
    /\ resumeToken' = cursor
    /\ tpc' = "close"
    /\ UNCHANGED <<saveVars, committed, opts, fpc, subscribedAt, cursor, current, streamErr, drops,
                   delivered, changeChanClosed, consumerActive, errChanLen,
                   errChanClosed, ctxDone, cctxDone, mtx, closeWG, closePc>>

\* stream.Close(ctx), whose error goes to db.errChan too; then the loop
\* starts again.
listenForChanges_Close ==
    /\ tpc = "close"
    /\ \E closeErr \in BOOLEAN :
          IF closeErr
          THEN /\ errChanLen < ErrChanCap
               /\ errChanLen' = errChanLen + 1
          ELSE UNCHANGED errChanLen
    /\ tpc' = "select"
    /\ UNCHANGED <<saveVars, committed, opts, fpc, subscribedAt, resumeToken, cursor, current, streamErr,
                   drops, delivered, changeChanClosed, consumerActive, errChanClosed,
                   ctxDone, cctxDone, mtx, closeWG, closePc>>

\* Another tailer of the same BasicMongoDB reports an error of its stream:
\* db.errChan is the one channel of all the tailers of the handle.
OtherTailer_Report ==
    /\ ~errChanClosed
    /\ errChanLen < ErrChanCap
    /\ errChanLen' = errChanLen + 1
    /\ UNCHANGED <<saveVars, committed, opts, fpc, subscribedAt, resumeToken, tpc, cursor, current,
                   streamErr, drops, delivered, changeChanClosed, consumerActive,
                   errChanClosed, ctxDone, cctxDone, mtx, closeWG, closePc>>

\* Somebody receives from Errors().
Errors_Receive ==
    /\ errChanLen > 0
    /\ errChanLen' = errChanLen - 1
    /\ UNCHANGED <<saveVars, committed, opts, fpc, subscribedAt, resumeToken, tpc, cursor, current,
                   streamErr, drops, delivered, changeChanClosed, consumerActive,
                   errChanClosed, ctxDone, cctxDone, mtx, closeWG, closePc>>

\* The caller cancels the ctx it gave CollectionWatchChangeStream.
CancelCtx ==
    /\ ~ctxDone
    /\ ctxDone' = TRUE
    /\ UNCHANGED <<saveVars, committed, opts, fpc, subscribedAt, resumeToken, tpc, cursor, current,
                   streamErr, drops, delivered, changeChanClosed, consumerActive,
                   errChanLen, errChanClosed, cctxDone, mtx, closeWG, closePc>>

\* fn returns: nobody receives from changeChan any more.
Consumer_Return ==
    /\ consumerActive
    /\ consumerActive' = FALSE
    /\ UNCHANGED <<saveVars, committed, opts, fpc, subscribedAt, resumeToken, tpc, cursor, current,
                   streamErr, drops, delivered, changeChanClosed, errChanLen,
                   errChanClosed, ctxDone, cctxDone, mtx, closeWG, closePc>>

\* Close: db.mtx.Lock(), db.cancel().
Close_Cancel ==
    /\ closePc = "idle"
    /\ mtx = "free"
    /\ mtx' = "Close"
    /\ cctxDone' = TRUE
    /\ closePc' = "wait"
    /\ UNCHANGED <<saveVars, committed, opts, fpc, subscribedAt, resumeToken, tpc, cursor, current,
                   streamErr, drops, delivered, changeChanClosed, consumerActive,
                   errChanLen, errChanClosed, ctxDone, closeWG>>

\* A Close that does not wait for the tailers.
Close_Finish_NoWait ==
    /\ closePc = "wait"
    /\ errChanClosed' = TRUE
    /\ mtx' = "free"
    /\ closePc' = "done"
    /\ UNCHANGED <<saveVars, committed, opts, fpc, subscribedAt, resumeToken, tpc, cursor, current,
                   streamErr, drops, delivered, changeChanClosed, consumerActive,
                   errChanLen, ctxDone, cctxDone, closeWG>>

\* Close: db.closeWG.Wait() returns, close(db.errChan), the deferred Unlock.
Close_Finish ==
    /\ closePc = "wait"
    /\ closeWG = 0
    /\ errChanClosed' = TRUE
    /\ mtx' = "free"
    /\ closePc' = "done"
    /\ UNCHANGED <<saveVars, committed, opts, fpc, subscribedAt, resumeToken, tpc, cursor, current,
                   streamErr, drops, delivered, changeChanClosed, consumerActive,
                   errChanLen, ctxDone, cctxDone, closeWG>>

\* The callers of the facade's other entry points (CollectionExec,
\* CollectionExecWithTransaction, DatabaseExec, CollectionDrop, Ping, ...).
Callers == {"c1", "c2"}

\* A caller calls a facade operation (each caller makes one call): it is at
\* db.mtx.Lock().
Exec_Call(c) ==
    /\ fpc[c] = "idle"
    /\ fpc' = [fpc EXCEPT ![c] = "lock"]
    /\ UNCHANGED <<saveVars, committed, opts, subscribedAt, resumeToken, tpc, cursor,
                   current, streamErr, drops, delivered, changeChanClosed,
                   consumerActive, errChanLen, errChanClosed, ctxDone, cctxDone, mtx,
                   closeWG, closePc>>

\* db.mtx.Lock() returns; the session is started and the callback or
\* transaction body runs.
Exec_Lock(c) ==
    /\ fpc[c] = "lock"
    /\ mtx = "free"
    /\ mtx' = c
    /\ fpc' = [fpc EXCEPT ![c] = "body"]
    /\ UNCHANGED <<saveVars, committed, opts, subscribedAt, resumeToken, tpc, cursor,
                   current, streamErr, drops, delivered, changeChanClosed,
                   consumerActive, errChanLen, errChanClosed, ctxDone, cctxDone,
                   closeWG, closePc>>

\* The body returns, the facade operation returns: the deferred
\* db.mtx.Unlock().
Exec_Return(c) ==
    /\ fpc[c] = "body"
    /\ mtx' = "free"
    /\ fpc' = [fpc EXCEPT ![c] = "returned"]
    /\ UNCHANGED <<saveVars, committed, opts, subscribedAt, resumeToken, tpc, cursor,
                   current, streamErr, drops, delivered, changeChanClosed,
                   consumerActive, errChanLen, errChanClosed, ctxDone, cctxDone,
                   closeWG, closePc>>

\* The state after NewMongoDBWithClient and the call of
\* CollectionWatchChangeStream with the marker o in its options and in
\* *resumeToken.
InitTail(o) ==
    /\ committed = 0
    /\ opts = o
    /\ subscribedAt = NoToken
    /\ fpc = [c \in Callers |-> "idle"]
    /\ resumeToken = o
    /\ tpc = "start"
    /\ cursor = 0
    /\ current = 0
    /\ streamErr = FALSE
    /\ drops = 0
    /\ delivered = << >>
    /\ changeChanClosed = FALSE
    /\ consumerActive = TRUE
    /\ errChanLen = 0
    /\ errChanClosed = FALSE
    /\ ctxDone = FALSE
    /\ cctxDone = FALSE
    /\ mtx = "free"
    /\ closeWG = 0
    /\ closePc = "idle"

\* ------------------------------------------------------ the specification
\* The event store.
InitCalls ==
    /\ pc = [w \in Writers |-> "idle"]
    /\ batch = [w \in Writers |-> NoBatch]
    /\ ov = [w \in Writers |-> 0]
    /\ txBase = [w \in Writers |-> 0]
    /\ retries = [w \in Writers |-> 0]
    /\ issued = [w \in Writers |-> FALSE]
    /\ result = [w \in Writers |-> "none"]
    /\ handled = [w \in Writers |-> << >>]
    /\ inputFaults = [w \in Writers |-> {}]
    /\ verAtStart = [w \in Writers |-> 0]
    /\ overlapped = [w \in Writers |-> FALSE]
    /\ committedEv = [s \in AggregateIDs |-> 0]
    /\ succeededEv = [s \in AggregateIDs |-> 0]

InitSave ==
    /\ layout \in Layouts
    /\ useCustomPrefix \in (IF layout = "A" THEN {FALSE} ELSE BOOLEAN)
    /\ handlerSet \in BOOLEAN
    /\ aggregates = << >>
    /\ events = << >>
    /\ eventsById = << >>
    /\ streams = IF layout = "B" THEN (AllStream :> [position |-> 0]) ELSE << >>
    /\ InitCalls
    /\ InitMaint
    /\ InitRem
    /\ InitRepo

Init == InitSave /\ InitTail(NoToken)

Next ==
    \E w \in Writers :
        \/ SaveA_Begin(w)
        \/ SaveA_Store(w)
        \/ SaveB_Begin(w)
        \/ SaveB_TxInc(w)
        \/ SaveB_TxConflict(w)
        \/ SaveB_TxInsert(w)
        \/ SaveB_TxStream(w)
        \/ SaveB_TxCommit(w)
        \/ SaveB_TxFail(w)
        \/ Save_Handle(w)
        \/ Save_Return(w)

Spec == Init /\ [][Next]_vars

\* The store of layout A alone.
InitA == Init /\ layout = "A"

NextA ==
    \E w \in Writers :
        \/ SaveA_Begin(w)
        \/ SaveA_Store(w)
        \/ Save_Handle(w)
        \/ Save_Return(w)

SpecA == InitA /\ [][NextA]_vars

\* The store of layout B alone.
InitB == Init /\ layout = "B"

NextB ==
    \E w \in Writers :
        \/ SaveB_Begin(w)
        \/ SaveB_TxInc(w)
        \/ SaveB_TxConflict(w)
        \/ SaveB_TxInsert(w)
        \/ SaveB_TxStream(w)
        \/ SaveB_TxCommit(w)
        \/ SaveB_TxFail(w)
        \/ Save_Handle(w)
        \/ Save_Return(w)

SpecB == InitB /\ [][NextB]_vars

\* The change feed tailer alone.
InitT ==
    /\ InitSave
    /\ layout = "A"
    /\ ~handlerSet
    /\ \E o \in OptTokens : InitTail(o)

NextT ==
    \/ Commit
    \/ listenForChanges_Start
    \/ listenForChanges_Select
    \/ listenForChanges_Watch
    \/ listenForChanges_Next
    \/ listenForChanges_NextFails
    \/ listenForChanges_Send
    \/ listenForChanges_Report
    \/ listenForChanges_Token
    \/ listenForChanges_Close
    \/ OtherTailer_Report
    \/ Errors_Receive
    \/ CancelCtx
    \/ Consumer_Return
    \/ Close_Cancel
    \/ Close_Finish

SpecT == InitT /\ [][NextT]_vars

\* The tailer, Close and the callers of the facade's other operations on one
\* handle.
NextF ==
    \/ Commit
    \/ listenForChanges_Start
    \/ listenForChanges_Select
    \/ listenForChanges_Watch
    \/ listenForChanges_Next
    \/ listenForChanges_NextFails
    \/ listenForChanges_Send
    \/ listenForChanges_Report
    \/ listenForChanges_Token
    \/ listenForChanges_Close
    \/ OtherTailer_Report
    \/ Errors_Receive
    \/ CancelCtx
    \/ Consumer_Return
    \/ Close_Cancel
    \/ Close_Finish
    \/ \E c \in Callers : Exec_Call(c) \/ Exec_Lock(c) \/ Exec_Return(c)

SpecF == InitT /\ [][NextF]_vars

\* The tailer with its scheduling: the goroutine takes a step it can take,
\* and the errors buffered in db.errChan are received.
SpecTFair ==
    /\ SpecT
    /\ WF_vars(listenForChanges_Start)
    /\ WF_vars(listenForChanges_Select)
    /\ WF_vars(listenForChanges_Watch)
    /\ WF_vars(listenForChanges_Next)
    /\ WF_vars(listenForChanges_Send)
    /\ WF_vars(listenForChanges_Report)
    /\ WF_vars(listenForChanges_Token)
    /\ WF_vars(listenForChanges_Close)
    /\ WF_vars(Errors_Receive)

\* Replace and Load on the stores that Save calls leave behind.
InitM ==
    /\ layout \in Layouts
    /\ useCustomPrefix = FALSE
    /\ handlerSet = FALSE
    /\ eventsById = << >>
    /\ IF layout = "A"
       THEN /\ aggregates \in StoresA
            /\ events = << >>
            /\ streams = << >>
       ELSE /\ aggregates = << >>
            /\ \E o \in Owners : \E k \in [1..Len(o) -> RecordKinds] :
                  /\ events = EventsB(o, k)
                  /\ streams = StreamsB(o)
    /\ InitCalls
    /\ InitMaint
    /\ InitRem
    /\ InitRepo
    /\ InitTail(NoToken)

NextM ==
    \/ Replace_Begin
    \/ ReplaceA_Update
    \/ ReplaceB_Find
    \/ ReplaceB_Replace
    \/ Replace_Return
    \/ Load_Call
    \/ Load_Return

SpecM == InitM /\ [][NextM]_vars

\* RenameEvent, Remove and Clear on the stores that Save calls leave behind.
NextD ==
    \/ RenameEventA
    \/ RenameEventB
    \/ Rename_Return
    \/ Snapshot_Stored
    \/ Remove_Stream
    \/ Remove_Events
    \/ Remove_Snapshots
    \/ Remove_Return
    \/ ClearA_Drop
    \/ ClearB_DropEvents
    \/ ClearB_DropStreams
    \/ ClearB_InsertAll
    \/ Clear_Return

SpecD == InitM /\ [][NextD]_vars

\* Save by one caller, with Remove, Clear and the construction of further
\* store instances going on beside it.
InitR ==
    /\ Init
    /\ useCustomPrefix = FALSE
    /\ handlerSet = FALSE

NextR ==
    \/ SaveA_Begin("w1")
    \/ SaveA_Store("w1")
    \/ SaveB_Begin("w1")
    \/ SaveB_TxInc("w1")
    \/ SaveB_TxInsert("w1")
    \/ SaveB_TxStream("w1")
    \/ SaveB_TxCommit("w1")
    \/ SaveB_TxFail("w1")
    \/ Save_Return("w1")
    \/ Snapshot_Stored
    \/ Remove_Stream
    \/ Remove_Events
    \/ Remove_Snapshots
    \/ Remove_Return
    \/ ClearA_Drop
    \/ ClearB_DropEvents
    \/ ClearB_DropStreams
    \/ ClearB_InsertAll
    \/ Clear_Return
    \/ \E i \in Instances : Ensure_Find(i) \/ Ensure_Insert(i)

SpecR == InitR /\ [][NextR]_vars

\* Layout B's Replace on one store instance beside Remove on another.
NextI ==
    \/ Replace_Begin
    \/ Replace_Beside
    \/ ReplaceB_Find
    \/ ReplaceB_Replace
    \/ Replace_Return
    \/ Remove_Stream
    \/ Remove_Events
    \/ Remove_Snapshots
    \/ Remove_Return

InitI == InitM /\ layout = "B"

SpecI == InitI /\ [][NextI]_vars

\* FindCustom and FindCustomIter on every repo and callback.
InitQ ==
    /\ layout = "A"
    /\ useCustomPrefix = FALSE
    /\ handlerSet = FALSE
    /\ aggregates = << >>
    /\ events = << >>
    /\ eventsById = << >>
    /\ streams = << >>
    /\ InitCalls
    /\ InitMaint
    /\ InitRem
    /\ InitTail(NoToken)
    /\ findIn \in FindInputs
    /\ findOut = NoOut
    /\ InitBack

NextQ == FindCustom_Call \/ FindCustomIter_Call

SpecQ == InitQ /\ [][NextQ]_vars

\* DefaultBackOff.Do on every configuration and fn.
InitK ==
    /\ layout = "A"
    /\ useCustomPrefix = FALSE
    /\ handlerSet = FALSE
    /\ aggregates = << >>
    /\ events = << >>
    /\ eventsById = << >>
    /\ streams = << >>
    /\ InitCalls
    /\ InitMaint
    /\ InitRem
    /\ InitTail(NoToken)
    /\ findIn = NoFind
    /\ findOut = NoOut
    /\ doIn \in DoInputs
    /\ doOut = NoDone

NextK == Do_Call

SpecK == InitK /\ [][NextK]_vars

\* Save and Clear called one after the other by one caller: a call begins
\* when no other call is between its begin and the return of its result.
NoSaveRunning == \A w \in Writers : pc[w] = "idle"

ClearReturned == clPc \in {"idle", "done"}

ClearA_Alone == NoSaveRunning /\ ClearA_Drop

ClearB_Alone == NoSaveRunning /\ ClearB_DropEvents

SaveA_Alone(w) == ClearReturned /\ SaveA_Begin(w)

SaveB_Alone(w) == ClearReturned /\ SaveB_Begin(w)

NextC ==
    \/ ClearA_Alone
    \/ ClearB_Alone
    \/ ClearB_DropStreams
    \/ ClearB_InsertAll
    \/ Clear_Return
    \/ SaveA_Alone("w1")
    \/ SaveA_Store("w1")
    \/ SaveB_Alone("w1")
    \/ SaveB_TxInc("w1")
    \/ SaveB_TxInsert("w1")
    \/ SaveB_TxStream("w1")
    \/ SaveB_TxCommit("w1")
    \/ SaveB_TxFail("w1")
    \/ Save_Return("w1")

SpecC == InitR /\ [][NextC]_vars

\* ------------------------------------------------------------ properties
\* No Save on the stream is between its call and its return.
Quiescent(s) == \A w \in Writers : InProgress(w) => batch[w][1].aid # s

\* The versions of a loaded list are 1, 2, ... in order.
Contiguous(evs) == \A i \in 1..Len(evs) : evs[i].version = i

\* C1 as stated: when the Save calls on a stream that returned success (nil)
\* carried M events in total and no Save on the stream is in progress, Load
\* returns exactly M events, whose versions are 1..M in order.
C1_VersionContiguityA_Succeeded ==
    layout = "A" =>
        \A s \in AggregateIDs :
            Quiescent(s) =>
                /\ Len(LoadA(s).events) = succeededEv[s]
                /\ Contiguous(LoadA(s).events)

\* C1 (layout A, version contiguity): when the Save calls on a stream that
\* returned with their write made (nil, or the error of the event handler
\* that runs after the write) carried M events in total and no Save on the
\* stream is in progress, Load returns exactly M events, whose versions are
\* 1..M in order, with no gap and no duplicate.
C1_VersionContiguityA ==
    layout = "A" =>
        \A s \in AggregateIDs :
            Quiescent(s) =>
                /\ Len(LoadA(s).events) = committedEv[s]
                /\ Contiguous(LoadA(s).events)
                /\ committedEv[s] > 0 => LoadA(s).err = "ok"
                /\ \A i \in 1..Len(LoadA(s).events) : LoadA(s).events[i].aid = s

\* C1 witness: two Save calls on one stream have returned with their write
\* made, the first nil and the second, an append at originalVersion 1, the
\* event handler's error, and Load returns their two events.
C1_Witness ==
    /\ layout = "A"
    /\ Quiescent("s1")
    /\ committedEv["s1"] = 2
    /\ succeededEv["s1"] = 1
    /\ Len(LoadA("s1").events) = 2
    /\ \E w \in Writers : pc[w] = "done" /\ result[w] = "EventHandlerError" /\ ov[w] = 1
                           /\ batch[w][1].aid = "s1"

\* C2 (layout B, version contiguity): when the Save calls on a stream that
\* returned with their write made carried M events in total and no Save on
\* the stream is in progress, Load returns exactly M events, whose versions
\* are 1..M in order, with no gap and no duplicate.
C2_VersionContiguityB ==
    layout = "B" =>
        \A s \in AggregateIDs :
            Quiescent(s) =>
                /\ Len(LoadB(s).events) = committedEv[s]
                /\ Contiguous(LoadB(s).events)

\* Results of a Save whose storage operation met a failure of the storage
\* itself (driver, transport, session, commit).
StorageFailures ==
    {"could not insert: storage failure", "could not update: storage failure",
     "ErrCouldNotSaveEvents: storage failure"}

\* The calls of w and u ran concurrently on one stream with the same
\* originalVersion, which was the stream's version when each began, and both
\* have returned from the store without a failure of the storage itself.
Racing(w, u) ==
    /\ w # u
    /\ pc[w] = "done" /\ pc[u] = "done"
    /\ issued[w] /\ issued[u]
    /\ overlapped[w] /\ overlapped[u]
    /\ batch[w][1].aid = batch[u][1].aid
    /\ ov[w] = ov[u]
    /\ verAtStart[w] = ov[w] /\ verAtStart[u] = ov[u]
    /\ result[w] \notin StorageFailures /\ result[u] \notin StorageFailures

\* C3 (layout A, optimistic concurrency): of two Save calls that run
\* concurrently on one stream with the same originalVersion, 0 included,
\* exactly one makes its write and the other returns the version conflict
\* error (ErrEventConflictFromOtherSave); the stream then is at
\* originalVersion + the winner's batch size and holds the winner's events.
C3_ExactlyOneWinsA ==
    layout = "A" =>
        \A w, u \in Writers :
            Racing(w, u) =>
                \E winner \in {w, u} :
                    LET loser == OtherOf({w, u}, winner)
                        aid == batch[winner][1].aid
                    IN /\ result[winner] \in CommittedResults
                       /\ result[loser] = "ErrEventConflictFromOtherSave"
                       /\ StoredVersionA(aid) = ov[winner] + Len(batch[winner])
                       /\ Len(LoadA(aid).events) = ov[winner] + Len(batch[winner])
                       /\ SubSeq(LoadA(aid).events, ov[winner] + 1,
                                 ov[winner] + Len(batch[winner])) = batch[winner]

\* C4 (layout B, optimistic concurrency): of two Save calls that run
\* concurrently on one stream with the same originalVersion, one of them run
\* again by the storage layer after a write conflict, exactly one makes its
\* write and the other returns an error (ErrCouldNotSaveEvents, the one
\* error layout B has for a refused write); the stream then ends at
\* originalVersion + the winner's batch size, with the winner's events.
C4_ExactlyOneWinsB ==
    layout = "B" =>
        \A w, u \in Writers :
            Racing(w, u) /\ retries[w] + retries[u] > 0 =>
                \E winner \in {w, u} :
                    LET loser == OtherOf({w, u}, winner)
                        aid == batch[winner][1].aid
                    IN /\ result[winner] \in CommittedResults
                       /\ result[loser] \notin CommittedResults
                       /\ StoredVersionB(aid) = ov[winner] + Len(batch[winner])
                       /\ Len(LoadB(aid).events) = ov[winner] + Len(batch[winner])
                       /\ SubSeq(LoadB(aid).events, ov[winner] + 1,
                                 ov[winner] + Len(batch[winner])) = batch[winner]

\* The events collection holds the documents in the order their transactions
\* committed, with strictly increasing, hence pairwise distinct, positions.
PositionsIncrease ==
    \A i, j \in 1..Len(events) : i < j => events[i].pos < events[j].pos

\* The transaction of w commits: the events collection gains the batch, in
\* batch order, at the positions base+1 .. base+len, where base is the value
\* of the counter the transaction read.
CommitTakesPositions(w) ==
    (pc[w] = "txCommit" /\ events' # events) =>
        /\ Len(events') = Len(events) + Len(batch[w])
        /\ SubSeq(events', 1, Len(events)) = events
        /\ \A i \in 1..Len(batch[w]) :
              /\ events'[Len(events) + i].pos = txBase[w] + i
              /\ events'[Len(events) + i].aid = batch[w][i].aid
              /\ events'[Len(events) + i].version = batch[w][i].version
        /\ txBase[w] = AllPosition
        /\ AllPosition' = txBase[w] + Len(batch[w])

\* C5 (layout B, global positions): the positions of the stored events are
\* pairwise distinct; an event of a batch that committed earlier has a
\* smaller position than every event of a batch that committed later; and
\* the positions of one batch are base+1 .. base+len in batch order, base
\* being the counter value its transaction read.
C5_GlobalPositions ==
    /\ [](layout = "B" => PositionsIncrease)
    /\ [][layout = "B" => \A w \in Writers : CommitTakesPositions(w)]_vars

\* C5 witness: a batch of two events and a batch of another writer, run
\* again after a write conflict, have both committed.
C5_Witness ==
    /\ layout = "B"
    /\ Len(events) = 3
    /\ \E w \in Writers : pc[w] = "done" /\ retries[w] > 0
                           /\ result[w] \in CommittedResults
    /\ \E i \in 1..2 : events[i].pos + 1 = events[i + 1].pos
                         /\ events[i].version + 1 = events[i + 1].version
                         /\ events[i].aid = events[i + 1].aid

\* Every stored event is covered by the counter and by the summary of its
\* stream: its position is not above the counter, and the stream document
\* exists and points at or past it.
EventsCovered ==
    \A i \in 1..Len(events) :
        /\ events[i].pos <= AllPosition
        /\ events[i].aid \in DOMAIN StreamDocs
        /\ events[i].pos <= StreamDocs[events[i].aid].position

\* The stream document points at the last stored event of its stream.
SummaryAtLastEvent ==
    \A a \in AggregateIDs :
        a \in DOMAIN StreamDocs =>
            \E i \in 1..Len(events) :
                /\ events[i].aid = a
                /\ events[i].pos = StreamDocs[a].position
                /\ events[i].version = StreamDocs[a].version
                /\ \A j \in 1..Len(events) : events[j].aid = a => j <= i

\* One step changes the counter, the events and the stream documents
\* together or changes none of them; a Save that returns
\* ErrCouldNotSaveEvents has changed none.
AllOrNothing ==
    /\ (events' # events) <=> (AllPosition' # AllPosition)
    /\ (events' # events) <=> (StreamDocs' # StreamDocs)
    /\ \A w \in Writers :
          (InTransaction(w) /\ pc'[w] = "done" /\ result'[w] \notin CommittedResults)
              => UNCHANGED storeVars

\* C6 (layout B, atomic append): whatever step of the append fails (the
\* counter increment, the event insert, the summary write, the commit),
\* afterwards the counter increment, the event inserts and the summary write
\* are all present or all absent, and no stored event has a position above
\* the counter or a stream summary that was not brought up to it.
C6_AtomicAppendB ==
    /\ [](layout = "B" => EventsCovered /\ SummaryAtLastEvent)
    /\ [][layout = "B" => AllOrNothing]_vars

\* C6 witness: a transaction failed after it had read and incremented the
\* counter, beside committed events: the counter is where it was read and no
\* event is above it.
C6_Witness ==
    /\ layout = "B"
    /\ \E w \in Writers :
          /\ pc[w] = "done"
          /\ result[w] = "ErrCouldNotSaveEvents: storage failure"
          /\ txBase[w] >= 1
          /\ AllPosition = txBase[w]
          /\ Len(events) = txBase[w]

\* Load of the configured layout.
LoadOf(aid) == IF layout = "A" THEN LoadA(aid) ELSE LoadB(aid)

\* The call of w is Save([e1(v=1), e2(v=2)], 0) on stream s, which was fresh
\* when the call began; no other Save ran during the call or has written the
\* stream since, and the storage did not fail.
FirstSaveDone(w, s) ==
    /\ pc[w] = "done"
    /\ issued[w]
    /\ ov[w] = 0
    /\ batch[w] = ContiguousBatch(s, 0, 2)
    /\ verAtStart[w] = 0
    /\ ~overlapped[w]
    /\ result[w] \notin StorageFailures
    /\ Quiescent(s)
    /\ committedEv[s] <= 2

\* The call of w is Save([e3(v=2)], 0) on stream s, which held [e1, e2] at
\* version 2 when the call began and holds them now.
SecondSaveDone(w, s) ==
    /\ pc[w] = "done"
    /\ ov[w] = 0
    /\ batch[w] = <<Event(s, AggregateTypeOf(s), 2)>>
    /\ verAtStart[w] = 2
    /\ LoadOf(s).events = ContiguousBatch(s, 0, 2)

\* C7 as the scenario is written: Save([e1(v=1), e2(v=2)], 0) on a fresh
\* stream succeeds and Load returns [e1, e2]; a following Save([e3(v=2)], 0)
\* fails with the version conflict error.
C7_Scenario_VersionConflict ==
    \A w \in Writers : \A s \in AggregateIDs :
        /\ FirstSaveDone(w, s) =>
              /\ result[w] \in CommittedResults
              /\ LoadOf(s) = [err |-> "ok", events |-> batch[w]]
        /\ SecondSaveDone(w, s) => result[w] = "ErrEventConflictFromOtherSave"

\* C7 (both layouts, as the code has it): Save([e1(v=1), e2(v=2)], 0) on a
\* fresh stream succeeds and Load returns [e1, e2] with versions 1, 2; a
\* following Save([e3(v=2)], 0) fails with the incorrect-event-version error
\* of the precondition checks (2 is not originalVersion + 1), before any
\* storage operation and without a handler call, and the step leaves the
\* store as it was, so Load still returns [e1, e2].
C7_Scenario ==
    /\ [](\A w \in Writers : \A s \in AggregateIDs :
            /\ FirstSaveDone(w, s) =>
                  /\ result[w] \in CommittedResults
                  /\ LoadOf(s) = [err |-> "ok", events |-> batch[w]]
            /\ SecondSaveDone(w, s) =>
                  /\ result[w] = "ErrIncorrectEventVersion"
                  /\ ~issued[w]
                  /\ handled[w] = << >>)
    /\ [][\A w \in Writers : \A s \in AggregateIDs :
            (pc[w] = "idle" /\ SecondSaveDone(w, s)') => UNCHANGED storeVars]_vars

\* C7 witness: the stream holds [e1, e2] and Save([e3(v=2)], 0) has returned
\* the incorrect-event-version error.
C7_Witness ==
    \E w \in Writers :
        /\ SecondSaveDone(w, "s1")
        /\ result[w] = "ErrIncorrectEventVersion"
        /\ committedEv["s1"] = 2

\* The faults of a batch that C8 names, and the error each layout's Save has
\* for a batch with that fault.
PreconditionFaults == {"empty", "ids", "versions"}

ErrorOfFault(f) ==
    IF f = "empty" THEN (IF layout = "A" THEN "ErrMissingEvents" ELSE "ErrNoEventsToAppend")
    ELSE IF f = "ids" THEN (IF layout = "A" THEN "ErrMismatchedEventAggregateIDs"
                            ELSE "ErrInvalidEvent")
    ELSE "ErrIncorrectEventVersion"

\* C8 (both layouts, precondition): a Save whose batch is empty, has events
\* of more than one stream id, or has an event whose version is not
\* originalVersion + its 1-based offset returns the error of that fault
\* before any storage operation: the call never goes on to the store, the
\* step that returns the error changes nothing in it, and the event handler
\* is not called.
C8_PreconditionRejects ==
    /\ [](\A w \in Writers :
            /\ InProgress(w) => inputFaults[w] \cap PreconditionFaults = {}
            /\ (pc[w] = "done" /\ inputFaults[w] \cap PreconditionFaults # {}) =>
                  /\ \E f \in inputFaults[w] \cap PreconditionFaults :
                        result[w] = ErrorOfFault(f)
                  /\ ~issued[w]
                  /\ handled[w] = << >>)
    /\ [][\A w \in Writers :
            (pc[w] = "idle" /\ inputFaults'[w] \cap PreconditionFaults # {}) =>
                /\ pc'[w] = "done"
                /\ UNCHANGED storeVars]_vars

\* C8 witness: beside stored events and with an event handler configured, a
\* Save of a batch with two stream ids has returned its error.
C8_Witness ==
    /\ handlerSet
    /\ Len(events) > 0
    /\ \E w \in Writers :
          /\ pc[w] = "done"
          /\ inputFaults[w] = {"ids"}
          /\ result[w] = "ErrInvalidEvent"
          /\ ~issued[w]

\* C9 (both layouts, one stream type per batch): a Save whose batch has
\* events of more than one stream type is rejected before anything is
\* written: such a call does not return with its write made, and no stream
\* comes to hold events of two types.
C9_MixedTypesRejected ==
    /\ \A w \in Writers :
          (pc[w] = "done" /\ "types" \in inputFaults[w]) =>
              result[w] \notin CommittedResults
    /\ \A s \in AggregateIDs :
          \A i, j \in 1..Len(LoadOf(s).events) :
              LoadOf(s).events[i].atype = LoadOf(s).events[j].atype

\* C10 (tailer resumption): once the tailer has delivered records up to
\* position P and the context is not cancelled, a stream it has open does not
\* stand past P: the stream re-opened after a drop starts at the resume
\* marker of the last delivered record or before it, so that no record above
\* P, one committed while no stream was open included, is skipped.
C10_ResumesFromLastDelivered ==
    (tpc = "next" /\ ~ctxDone /\ delivered # << >>) =>
        cursor <= delivered[Len(delivered)]

\* The record delivered at place j of the consumer's sequence was not
\* delivered before.
FirstDelivery(j) == \A k \in 1..(j - 1) : delivered[k] # delivered[j]

\* C11 (tailer order): the tailer hands the consumer one record at a time,
\* and of two records each delivered for the first time the one committed
\* first is delivered first, across any number of reconnects.
C11_DeliversInCommitOrder ==
    /\ [](\A i, j \in 1..Len(delivered) :
            (i < j /\ FirstDelivery(i) /\ FirstDelivery(j)) => delivered[i] < delivered[j])
    /\ [][delivered' # delivered =>
            /\ Len(delivered') = Len(delivered) + 1
            /\ SubSeq(delivered', 1, Len(delivered)) = delivered
            /\ delivered'[Len(delivered')] = current]_vars

\* C11 witness: after a reconnect the consumer has received record 1 again
\* and then record 2 for the first time.
C11_Witness ==
    /\ drops > 0
    /\ Len(delivered) >= 3
    /\ delivered[1] = 1
    /\ \E i \in 2..(Len(delivered) - 1) : delivered[i] = 1
    /\ delivered[Len(delivered)] = 2
    /\ FirstDelivery(Len(delivered))

\* C12 (error reporting does not block): a tailer that has a stream error to
\* report can take its next step whatever the state of the error channel:
\* with the buffer full and nobody receiving, it drops the error and goes on
\* to re-open the stream.
C12_ReportNeverBlocks ==
    (tpc = "report" /\ streamErr) => ENABLED listenForChanges_Report

\* C13 (cancellation): once the context given to the subscription is
\* cancelled, the tailer's goroutine eventually closes its delivery channel
\* and exits, without Close of the storage handle (the property asks
\* nothing once Close has been called or the consumer has stopped
\* receiving).
C13_CancelledTailerExits ==
    ctxDone ~> ((tpc = "exited" /\ changeChanClosed) \/ closePc # "idle" \/ ~consumerActive)

\* The stored records of a stream, in stored order.
StoredOf(aid) ==
    IF layout = "A"
    THEN (IF aid \in DOMAIN aggregates THEN aggregates[aid].events ELSE << >>)
    ELSE FindB(aid)

VersionsOf(docs) == [i \in 1..Len(docs) |-> docs[i].version]

\* The step in which a Replace call returns nil.
Replaced == rpc # "done" /\ rpc' = "done" /\ rResult' = "ok"

\* C14: Replace preserves order. A Replace of (S, v) that succeeds changes
\* the event type and payload of the record of S at version v and nothing
\* else: every stream keeps its records, their versions and their order; in
\* layout B the record keeps its position, as _id and in its metadata, and
\* the collection its order; the stream documents (the stream's version)
\* and the "$all" counter are unchanged; a Load of S that succeeds
\* afterwards returns as many events as S had, with the same versions in
\* the same order, and where Load succeeded before, the same events but for
\* the content at v.
C14_ReplacePreservesOrder ==
    [][Replaced =>
         LET S == rEvent.aid
             v == rEvent.version
         IN /\ streams' = streams
            /\ eventsById' = eventsById
            /\ DOMAIN aggregates' = DOMAIN aggregates
            /\ \A a \in DOMAIN aggregates : aggregates'[a].version = aggregates[a].version
            /\ Len(events') = Len(events)
            /\ \A i \in 1..Len(events) :
                  /\ events'[i].pos = events[i].pos
                  /\ events'[i].metaPosition = events[i].metaPosition
            /\ \A aid \in AggregateIDs :
                  /\ Len(StoredOf(aid)') = Len(StoredOf(aid))
                  /\ \A i \in 1..Len(StoredOf(aid)) :
                        StoredOf(aid)'[i] =
                            IF aid = S /\ StoredOf(aid)[i].version = v
                            THEN [StoredOf(aid)[i] EXCEPT !.etype = rEvent.etype,
                                                          !.data = rEvent.data]
                            ELSE StoredOf(aid)[i]
            /\ \E i \in 1..Len(StoredOf(S)) :
                  /\ StoredOf(S)[i].version = v
                  /\ StoredOf(S)'[i].data = rEvent.data
            /\ LoadOf(S)'.err = "ok" =>
                  VersionsOf(LoadOf(S)'.events) = VersionsOf(StoredOf(S))
            /\ LoadOf(S).err = "ok" =>
                  /\ LoadOf(S)'.err = "ok"
                  /\ \A i \in 1..Len(LoadOf(S).events) :
                        LoadOf(S).events[i].version # v =>
                            LoadOf(S)'.events[i] = LoadOf(S).events[i]]_vars

\* Layout B: a stream of two events whose first was replaced, and a Load of
\* it afterwards that returns both, the first with the new payload, its
\* record still at the position it had.
C14_Witness ==
    /\ layout = "B"
    /\ loaded.err = "ok"
    /\ Len(loaded.events) = 2
    /\ loaded.events[1].data = "d1"
    /\ loaded.events[2].data = "d0"
    /\ VersionsOf(loaded.events) = <<1, 2>>
    /\ \E i \in 1..Len(events) :
          /\ events[i].aid = loadArg
          /\ events[i].version = 1
          /\ events[i].data = "d1"
          /\ events[i].pos = i
          /\ events[i].metaPosition = i

StorageErrors == {"EventStoreError", "ErrCouldNotSaveEvents"}

\* C15: the errors of Replace. A Replace call that has returned reports
\* AggregateNotFound only when the stream has no record, and whenever it
\* has none and no storage operation failed; it reports EventNotFound only
\* when the stream has records but none at the version, and whenever that
\* is so and no storage operation failed; so a failure of the existence
\* check on a stream that has records is not reported as a not-found error.
C15_ReplaceNotFoundErrors ==
    rpc = "done" =>
        LET stored == StoredOf(rEvent.aid)
            atVersion == {i \in 1..Len(stored) : stored[i].version = rEvent.version}
        IN /\ rResult = "ErrAggregateNotFound" => stored = << >>
           /\ stored = << >> => rResult \in {"ErrAggregateNotFound"} \cup StorageErrors
           /\ rResult = "ErrEventNotFound" => stored # << >> /\ atVersion = {}
           /\ (stored # << >> /\ atVersion = {} /\ rResult # "ErrAggregateNotFound")
                  => rResult \in {"ErrEventNotFound"} \cup StorageErrors

\* C16: Load of a stream without events. A Load call on a stream id that
\* has no stored event returns the not-found error (or the error of a
\* failed read), never a list without an error.
C16_LoadOfEmptyIsNotFound ==
    (loaded # NoLoad /\ StoredOf(loadArg) = << >>)
        => loaded.err \in {"ErrAggregateNotFound", "EventStoreError"}

\* C17: Load sorts by version. The events a Load call of layout B returns
\* are in ascending order of version, in whatever order the cursor gave the
\* documents.
C17_LoadSortsByVersion ==
    (layout = "B" /\ loaded.err = "ok")
        => \A i, j \in 1..Len(loaded.events) :
              i < j => loaded.events[i].version < loaded.events[j].version

\* The step in which a Load call returns.
LoadReturnedNow == loaded = NoLoad /\ loaded' # NoLoad

\* The record is one whose decoding fails: it carries a payload and is of a
\* type without a registered factory, or its payload does not unmarshal.
Undecodable(d) == d.data # NoData /\ (d.etype \notin Registered \/ d.data = BadData)

\* C18: a record that cannot be decoded fails the whole Load. A Load call
\* on a stream of which a stored record carries a payload and is of a type
\* without a registered factory, or carries a payload that does not
\* unmarshal, returns an error and no events: never a list, partial or
\* whole, without an error.
C18_UndecodableFailsLoad ==
    [][(LoadReturnedNow /\ \E i \in 1..Len(StoredOf(loadArg')) :
                               Undecodable(StoredOf(loadArg')[i]))
          => loaded'.err # "ok" /\ loaded'.events = << >>]_vars

\* The same for the records the call has read: a Load call that reads such
\* a record returns an error and no events, and a Load call that returns
\* without an error returns one event for each record it has read, in the
\* order it read them.
C18_UndecodableFailsLoad_ReadRecords ==
    /\ (loaded # NoLoad /\ \E i \in 1..Len(cursorDocs) : Undecodable(cursorDocs[i]))
           => loaded.err # "ok" /\ loaded.events = << >>
    /\ loaded.err = "ok" =>
           /\ Len(loaded.events) = Len(cursorDocs)
           /\ \A i \in 1..Len(cursorDocs) :
                 /\ loaded.events[i].version = cursorDocs[i].version
                 /\ loaded.events[i].etype = cursorDocs[i].etype
                 /\ loaded.events[i].data = cursorDocs[i].data

\* The same in layout A, whose Load reads the one document of the stream.
C18_UndecodableFailsLoad_LayoutA ==
    [][(layout = "A" /\ LoadReturnedNow
           /\ \E i \in 1..Len(StoredOf(loadArg')) : Undecodable(StoredOf(loadArg')[i]))
          => loaded'.err # "ok" /\ loaded'.events = << >>]_vars

HandlerErrors == {"EventHandlerError", "CouldNotHandleEventError"}

IsPrefix(p, b) == Len(p) <= Len(b) /\ SubSeq(b, 1, Len(p)) = p

\* C19 as stated: a Save that has written its batch with a handler
\* configured has called the handler for every event of the batch, in
\* batch order.
C19_HandlerOncePerEvent_WholeBatch ==
    \A w \in Writers :
        (pc[w] = "done" /\ handlerSet /\ result[w] \in CommittedResults)
            => handled[w] = batch[w]

\* C19: the post-commit handler calls. A Save that has returned has called
\* the handler only if one is configured and its write was made; the calls
\* are for the events of the batch in batch order, one call per event, from
\* the first event up to the last event when Save returns nil and up to the
\* event whose call failed when Save returns the handler error: the events
\* after a failed call are not handed to the handler.
C19_HandlerOncePerEvent ==
    \A w \in Writers :
        pc[w] = "done" =>
            /\ IsPrefix(handled[w], batch[w])
            /\ (~handlerSet \/ result[w] \notin CommittedResults) => handled[w] = << >>
            /\ result[w] \in HandlerErrors => handlerSet /\ Len(handled[w]) >= 1
            /\ (handlerSet /\ result[w] = "ok") => handled[w] = batch[w]

\* A Save of two events has returned nil after the handler was called for
\* the first and then the second.
C19_Witness ==
    \E w \in Writers :
        /\ pc[w] = "done"
        /\ handlerSet
        /\ result[w] = "ok"
        /\ Len(batch[w]) = 2
        /\ handled[w] = <<batch[w][1], batch[w][2]>>

StoredVersionOf(aid) == IF layout = "A" THEN StoredVersionA(aid) ELSE StoredVersionB(aid)

\* Load of the stream of w's batch succeeds and returns the events of the
\* batch, in batch order.
BatchLoaded(w) ==
    LET got == LoadOf(batch[w][1].aid)
    IN /\ got.err = "ok"
       /\ \E k \in 0..Len(got.events) :
             /\ k + Len(batch[w]) <= Len(got.events)
             /\ SubSeq(got.events, k + 1, k + Len(batch[w])) = batch[w]

\* The step in which the write of w's Save is made and its handler loop is
\* about to run.
WrittenNow(w) == pc[w] # "handle" /\ pc'[w] = "handle"

\* The step in which the handler loop of w's Save ends and Save returns.
HandlerReturnedNow(w) == pc[w] = "handle" /\ pc'[w] = "done"

\* C20: a handler failure leaves the write in place. The write of a Save
\* stores the batch and sets the stream's stored version to the version of
\* the batch's last event; the handler loop that follows, whether a call
\* fails or not, changes nothing in the store; and while the caller of a Save
\* holds a handler error, Load of the batch's stream succeeds and returns
\* every event of the batch, in batch order.
C20_HandlerFailureKeepsBatch ==
    /\ [](\A w \in Writers :
             (pc[w] = "done" /\ result[w] \in HandlerErrors) => BatchLoaded(w))
    /\ [][\A w \in Writers :
             /\ WrittenNow(w) =>
                   /\ BatchLoaded(w)'
                   /\ StoredVersionOf(batch[w][1].aid)' = batch[w][Len(batch[w])].version
             /\ HandlerReturnedNow(w) => UNCHANGED storeVars]_vars

\* A Save of two events to a fresh stream has returned the handler error
\* from the call for its first event, and Load returns both events.
C20_Witness ==
    \E w \in Writers :
        /\ pc[w] = "done"
        /\ result[w] \in HandlerErrors
        /\ Len(batch[w]) = 2
        /\ Len(handled[w]) = 1
        /\ LoadOf(batch[w][1].aid).events = batch[w]
        /\ StoredVersionOf(batch[w][1].aid) = 2

\* ------------------------------------------------ Remove, Clear, RenameEvent
\* The stream a Remove step works on.
RemovedId == IF rmPc = "idle" THEN rmArg' ELSE rmArg

\* A step of a Remove call.
RemoveStep == rmPc' # rmPc

\* The event documents of layout B that are not of stream id.
EventsOfOthers(coll, id) == SelectSeq(coll, LAMBDA d : d.aid # id)

\* The third deletion of a Remove succeeds.
Remove_SnapshotsOk == Remove_Snapshots /\ rmResult' = "ok"

\* C21: Remove deletes one stream and nothing else. When a Remove(S) returns
\* nil, no stream document, no event and no snapshot of S is stored; every
\* step of the call leaves the stream documents of the other streams, the
\* "$all" document, the other streams' events and their snapshots as they
\* were; and the deletion of the snapshots of a stream that has none can
\* succeed.
C21_RemoveDeletesOneStream ==
    /\ [][RemoveStep =>
             /\ DOMAIN streams' \subseteq DOMAIN streams
             /\ \A a \in DOMAIN streams \ {RemovedId} :
                   a \in DOMAIN streams' /\ streams'[a] = streams[a]
             /\ EventsOfOthers(events', RemovedId) = EventsOfOthers(events, RemovedId)
             /\ snapshots' \ {RemovedId} = snapshots \ {RemovedId}
             /\ (rmPc' = "done" /\ rmResult' = "ok") =>
                   /\ rmArg' \notin DOMAIN streams'
                   /\ \A i \in 1..Len(events') : events'[i].aid # rmArg'
                   /\ rmArg' \notin snapshots']_vars
    /\ []((rmPc = "snapshots" /\ rmArg \notin snapshots) => ENABLED Remove_SnapshotsOk)

\* A Remove has returned nil; another stream still has its stream document,
\* its events and its snapshot, and the counter document is above 0.
C21_Witness ==
    /\ rmPc = "done"
    /\ rmResult = "ok"
    /\ rmArg \notin DOMAIN streams
    /\ \E a \in AggregateIDs \ {rmArg} :
          /\ a \in DOMAIN streams
          /\ a \in snapshots
          /\ \E i \in 1..Len(events) : events[i].aid = a
    /\ streams[AllStream].position >= 2

\* The store as a newly constructed one: no aggregate document in layout A;
\* no event document and no stream document but "$all", at position 0, in
\* layout B.
Cleared ==
    IF layout = "A"
    THEN aggregates = << >>
    ELSE /\ events = << >>
         /\ DOMAIN streams = {AllStream}
         /\ streams[AllStream].position = 0

\* The step in which a Clear call returns nil.
ClearedNow == clPc # "done" /\ clPc' = "done" /\ clResult' = "ok"

\* The step in which the Save of w that follows a Clear, with
\* originalVersion 0 and a batch that passes the precondition checks, gets
\* its result.
SavedAfterClear(w) ==
    /\ clPc = "done"
    /\ clResult = "ok"
    /\ Cleared
    /\ InProgress(w)
    /\ ov[w] = 0
    /\ pc'[w] = "done"

\* C22: Clear empties the store. When a Clear returns nil, layout A holds no
\* aggregate document, and layout B holds no event document and no stream
\* document except "$all", which exists with position 0; the Save with
\* originalVersion 0 that follows is written (it returns nil unless the
\* storage fails during it).
C22_ClearEmptiesStore ==
    [][/\ ClearedNow => Cleared'
       /\ \A w \in Writers :
             SavedAfterClear(w) =>
                 \/ result'[w] = "ok" /\ LoadOf(batch[w][1].aid)'.events = batch[w]
                 \/ result'[w] \in StorageFailures]_vars

\* After a Clear of a store that held events returned nil, a Save with
\* originalVersion 0 has returned nil, in layout B from position 1 on.
C22_Witness ==
    /\ clPc = "done"
    /\ clResult = "ok"
    /\ pc["w1"] = "done"
    /\ result["w1"] = "ok"
    /\ ov["w1"] = 0
    /\ committedEv[batch["w1"][1].aid] > Len(batch["w1"])
    /\ LoadOf(batch["w1"][1].aid).events = batch["w1"]
    /\ layout = "B" => streams[AllStream].position = Len(batch["w1"])

\* The step in which a RenameEvent call returns nil.
RenamedNow == renamed = NoRename /\ renamed' # NoRename /\ renamed'.err = "ok"

\* C23: RenameEvent renames every event of the type. When RenameEvent(from,
\* to) returns nil, every stored record whose event type was `from` has the
\* type `to`, also when one stream holds several of them, and no record has
\* another field or another record's type changed: each stream keeps its
\* records, their versions, payloads, stream ids and, in layout B, positions.
C23_RenameRenamesAll ==
    [][RenamedNow =>
          /\ \A aid \in AggregateIDs :
                LET old == StoredOf(aid)
                    new == StoredOf(aid)'
                IN /\ Len(new) = Len(old)
                   /\ \A i \in 1..Len(old) :
                         new[i] = [old[i] EXCEPT !.etype =
                                      IF @ = renamed'.from THEN renamed'.to ELSE @]
          /\ streams' = streams]_vars

\* ------------------------------------------------- versions and positions
\* The stored events of stream a whose version no other event of a exceeds.
HighestVersioned(a) ==
    {i \in 1..Len(events) :
        /\ events[i].aid = a
        /\ \A j \in 1..Len(events) :
              events[j].aid = a => events[j].version <= events[i].version}

\* C24: the stream document is at the stream's highest version. In layout B,
\* in every state of the collections that Save calls in any interleaving
\* leave, each stream document's position is the position of the stored
\* event of that stream with the highest version.
C24_SummaryAtHighestVersion ==
    layout = "B" =>
        \A a \in AggregateIDs :
            a \in DOMAIN StreamDocs =>
                /\ HighestVersioned(a) # {}
                /\ \A i \in HighestVersioned(a) : events[i].pos = StreamDocs[a].position

\* The same with "the event with the highest version" read as "one of the
\* events with the highest version".
C24_SummaryAtSomeHighestVersion ==
    layout = "B" =>
        \A a \in AggregateIDs :
            a \in DOMAIN StreamDocs =>
                \E i \in HighestVersioned(a) : events[i].pos = StreamDocs[a].position

\* The step in which the Save of w, layout A, has made its storage operation.
StoredNowA(w) == layout = "A" /\ pc[w] = "store" /\ pc'[w] # "store"

WrittenNowB(w) ==
    /\ layout = "B"
    /\ pc[w] = "txCommit"
    /\ pc'[w] # "txCommit"
    /\ <<events, streams, eventsById>>' # <<events, streams, eventsById>>

\* C26: the version gate of layout B. A Save writes only when its
\* originalVersion is the stored version of the stream (0 for a stream
\* without stream document); so a stream document's version never
\* decreases and is the number of events stored for the stream.
C26_VersionGateB ==
    /\ [][\A w \in Writers :
             WrittenNowB(w) => StoredVersionB(batch[w][1].aid) = ov[w]]_vars
    /\ [][\A a \in AggregateIDs : StoredVersionB(a)' >= StoredVersionB(a)]_vars
    /\ [](layout = "B" => \A a \in AggregateIDs : StoredVersionB(a) = Len(FindB(a)))

\* ------------------------------------------------------ the "$all" document
\* The step of a Save transaction that commits the increment of "$all".
IncrementedNow ==
    \E w \in Writers :
        /\ pc[w] = "txCommit"
        /\ pc'[w] # "txCommit"
        /\ streams'[AllStream].position = streams[AllStream].position + Len(batch[w])

\* The step of a Clear that puts "$all" back at position 0.
ResetNow == clPc = "all" /\ clPc' = "done" /\ clResult' = "ok"

\* C27: one "$all" document at all times. In layout B, in every state after
\* the construction of the store, through Save, Remove, Clear and the
\* construction of further store instances on the same database, the
\* streams collection holds the "$all" document (its _id makes it the only
\* one), and the document changes only by the increment a Save commits or by
\* the reset of a Clear.
C27_OneAllDocument ==
    /\ [](layout = "B" => AllStream \in DOMAIN streams)
    /\ [][(layout = "B" /\ AllStream \in DOMAIN streams /\ AllStream \in DOMAIN streams'
             /\ streams'[AllStream] # streams[AllStream])
          => (IncrementedNow \/ ResetNow)]_vars

\* No Save finds the "$all" document missing.
C27_NoSaveMissesAll ==
    \A w \in Writers :
        result[w] # "ErrCouldNotSaveEvents: could not increment global position"

\* ----------------------------------------------------------- Repo.FindCustom
\* C28: FindCustom and FindCustomIter without a query or without a model. A
\* call whose callback returns no cursor and no error returns a RepoError
\* for which errors.Is(err, ErrInvalidQuery) holds, and no results; a call on
\* a repo without entity factory returns ErrModelNotSet and has not called
\* the callback.
C28_FindCustomErrors ==
    findOut.returned =>
        /\ (findIn.newEntity /\ findIn.f.cursor.nil /\ findIn.f.err = NoErr) =>
              /\ findOut.err # NoErr
              /\ findOut.err[1] = "RepoError"
              /\ ErrorsIs(findOut.err, "ErrInvalidQuery")
              /\ findOut.result = Nil
        /\ ~findIn.newEntity =>
              /\ ErrorsIs(findOut.err, "ErrModelNotSet")
              /\ findOut.result = Nil
              /\ ~findOut.called

\* ------------------------------------------------ maintenance beside Save
\* The step in which the transaction of w's Save commits.
CommittedNowB(w) == layout = "B" /\ pc[w] = "txCommit" /\ events' # events

\* C29: maintenance keeps the version gate. In layout B, whatever Remove
\* (also one that fails after some of its deletions) and Clear calls run
\* beside the Save calls, a Save with originalVersion 0 is written only
\* when no event of the stream is stored, so that no version 1 is stored a
\* second time for the stream.
C29_MaintenanceKeepsGate ==
    [][\A w \in Writers :
          (CommittedNowB(w) /\ ov[w] = 0) => FindB(batch[w][1].aid) = << >>]_vars

\* --------------------------------------------------- the tailer's blocked send
\* A step of the tailer's goroutine.
listenForChanges_Step ==
    \/ listenForChanges_Start
    \/ listenForChanges_Select
    \/ listenForChanges_Watch
    \/ listenForChanges_Next
    \/ listenForChanges_NextFails
    \/ listenForChanges_Send
    \/ listenForChanges_Report
    \/ listenForChanges_Token
    \/ listenForChanges_Close

\* C30: cancellation unblocks the send. When the tailer's goroutine is in
\* the send of a record on changeChan and the subscription's context is
\* cancelled or Close has cancelled the handle's context, the goroutine has
\* a step to take, whether or not the consumer still receives: it is not
\* held in the send for ever.
C30_CancelUnblocksSend ==
    (tpc = "send" /\ (ctxDone \/ cctxDone)) => ENABLED listenForChanges_Step

\* ------------------------------------------------- the saved resume marker
\* The records the consumer has received.
Delivered == {delivered[i] : i \in 1..Len(delivered)}

\* The records a stream re-opened with the marker t would not return, out of
\* those committed since the subscription's first stream started.
Behind(t) == {r \in 1..committed : r > subscribedAt /\ r <= t}

\* C31: the saved resume marker stays behind the consumer. *resumeToken
\* never identifies a record that has not been handed to the consumer: every
\* record committed since the subscription started that a stream resumed
\* from the marker would skip is one the consumer has received, so that
\* resuming from the marker delivers a record again at most and loses none.
C31_MarkerBehindConsumer ==
    (resumeToken # NoToken /\ subscribedAt # NoToken) =>
        Behind(resumeToken) \subseteq Delivered

\* The same for a subscription whose options carry a resume marker.
C31_MarkerBehindConsumer_WithMarker ==
    (opts # NoToken /\ subscribedAt # NoToken) =>
        Behind(resumeToken) \subseteq Delivered

\* ------------------------------------------------ the subscription's failures
\* The step in which Watch fails to open the stream.
WatchFailedNow == tpc = "watch" /\ tpc' = "select"

\* The step that leaves a stream that has ended with an error.
StreamFailedNow == tpc = "report" /\ streamErr /\ tpc' = "token"

\* C32: every failure of the subscription is reported. The step in which
\* the change stream fails to open, and the step that leaves a stream ended
\* with an error, each put an error into db.errChan. (The claim goes on to
\* say that the tailer then opens a new subscription; this is its reporting
\* half.)
C32_FailuresReported ==
    [][(WatchFailedNow \/ StreamFailedNow) => errChanLen' = errChanLen + 1]_vars

\* The reporting of the failures of an open stream alone.
C32_StreamFailuresReported ==
    [][StreamFailedNow => errChanLen' = errChanLen + 1]_vars

\* ------------------------------------------------ Replace beside other calls
\* The stored event that layout B's Replace has read as the original is the
\* one its ReplaceOne will match.
OriginalInPlace ==
    LET i == FirstMatchB(rEvent.aid, rEvent.version)
    IN i # 0 /\ events[i].pos = rFound

\* C33: layout B's Replace works on one state. The existence check, the
\* read of the original event and the replacement write see the same
\* stream: when Replace looks for the original, the stream its existence
\* check counted still has events, and when it writes, the original it read
\* is still in place, whatever calls run beside it.
C33_ReplaceOnOneState ==
    [][/\ (layout = "B" /\ rpc = "find" /\ rpc' # "find") =>
             FindB(rEvent.aid) # << >>
       /\ (layout = "B" /\ rpc = "replace" /\ rpc' # "replace") =>
             OriginalInPlace]_vars

\* ------------------------------------------------------ the facade's mutex
\* C34: the facade's mutex is not held during the body. While the callback
\* or transaction body of one caller's facade operation is in progress,
\* another caller that has called a facade operation can enter its own
\* body, and a tailer that is about to open its change stream can open it
\* (when Close is not holding the handle).
C34_MutexFreeDuringBody ==
    \A c \in Callers :
        (fpc[c] = "body" /\ closePc # "wait") =>
            /\ \A d \in Callers \ {c} : fpc[d] = "lock" => ENABLED Exec_Lock(d)
            /\ tpc = "watch" => ENABLED listenForChanges_Watch

\* db.mtx is held by the caller whose body is in progress, and by no other.
C34_MutexHeldDuringBody ==
    \A c \in Callers : fpc[c] = "body" <=> mtx = c

\* ------------------------------------------ Save with collection prefixes
\* The streams with a document in the events collection have their summary
\* in the streams collection, and the events collection holds event
\* documents only.
SummariesInStreams ==
    /\ \A i \in 1..Len(events) : events[i].aid \in DOMAIN streams
    /\ eventsById = << >>

\* C35: Save with multi-tenant prefixes keeps the collections apart. In
\* layout B with useCustomPrefix, the stream summary of every Save that has
\* committed is in the namespace's streams collection, beside the counter
\* it incremented, and the namespace's events collection holds nothing but
\* event records.
C35_PrefixedSummaryInStreams ==
    (layout = "B" /\ useCustomPrefix) => SummariesInStreams

\* The same without prefixes.
C35_SummaryInStreams ==
    (layout = "B" /\ ~useCustomPrefix) => SummariesInStreams

\* ------------------------------------------------------------ Close returns
\* C36: Close returns. While Close waits in db.closeWG.Wait() with db.mtx
\* held, either the wait is over or the tailer's goroutine has a step to
\* take towards its exit: Close and the tailer never wait for each other.
C36_CloseNotStuck ==
    closePc = "wait" => ENABLED (Close_Finish \/ listenForChanges_Step)

\* ------------------------------------------------------- closed channels
\* The tailer's step is a send on db.errChan.
SentOnErrChan ==
    /\ tpc \in {"report", "close"}
    /\ tpc' # tpc
    /\ errChanLen' = errChanLen + 1

\* The tailer's step is a send on changeChan.
SentOnChangeChan == tpc = "send" /\ tpc' # "send"

\* C37: no send on a closed channel. The tailer sends on db.errChan only
\* while Close has not closed it, and on its changeChan only while that is
\* open; changeChan is closed once, in the step in which the tailer's
\* goroutine exits.
C37_NoSendOnClosed ==
    /\ [](changeChanClosed <=> tpc = "exited")
    /\ [][/\ SentOnErrChan => ~errChanClosed
          /\ SentOnChangeChan => ~changeChanClosed
          /\ changeChanClosed' # changeChanClosed =>
                (~changeChanClosed /\ tpc # "exited" /\ tpc' = "exited")]_vars

\* Close has closed db.errChan after a tailer that delivered a record and
\* reported an error has exited and closed its changeChan.
C37_Witness ==
    /\ errChanClosed
    /\ changeChanClosed
    /\ tpc = "exited"
    /\ errChanLen > 0
    /\ delivered # << >>

\* ----------------------------------------------- the handler after the write
\* The step in which the Save of w calls the event handler.
HandlerRanNow(w) == handled'[w] # handled[w] /\ handled'[w] # << >>

\* C38: the handler runs after the write. In both layouts, when a Save calls
\* the event handler its whole batch is already stored and the call has not
\* failed: a Save that is rejected, meets a conflict or whose write or
\* transaction fails has called the handler for no event.
C38_HandlerAfterWrite ==
    /\ [][\A w \in Writers : HandlerRanNow(w) => (pc[w] = "handle" /\ BatchLoaded(w))]_vars
    /\ [](\A w \in Writers :
             handled[w] # << >> => (handlerSet /\ result[w] \in CommittedResults))

\* With a handler configured, one Save has returned nil with the handler
\* called for its batch, and another Save, which reached the storage, has
\* returned an error without a handler call.
C38_Witness ==
    \E w \in Writers :
        LET v == OtherOf(Writers, w)
        IN /\ handlerSet
           /\ pc[w] = "done" /\ result[w] = "ok" /\ handled[w] = batch[w]
           /\ pc[v] = "done" /\ issued[v] /\ result[v] \notin CommittedResults
           /\ handled[v] = << >>

\* ------------------------------------------------ the counter and the events
\* C39: the counter covers the stored events. In layout B, through Save,
\* Remove, Clear and the construction of further store instances, the
\* position in the "$all" document is at least the position of every stored
\* event, so that the positions a later Save takes from it are above all of
\* them.
C39_CounterCoversEvents ==
    (layout = "B" /\ AllStream \in DOMAIN streams) =>
        \A i \in 1..Len(events) : events[i].pos <= streams[AllStream].position

\* ------------------------------------------------------- DefaultBackOff.Do
\* C40: DefaultBackOff.Do, whatever b.retries is (zero and negative
\* included). Do has called fn at most b.retries times (not at all when
\* b.retries is below one) and not again after a call that returned nil; it
\* returns nil only if its last call of fn returned nil, and otherwise the
\* error of its last call.
C40_DoReturnsLastOutcome ==
    doOut.returned =>
        /\ doOut.calls <= (IF doIn.retries > 0 THEN doIn.retries ELSE 0)
        /\ \A k \in 1..(doOut.calls - 1) : doIn.fn[k] # "nil"
        /\ doOut.calls >= 1
        /\ doOut.err = doIn.fn[doOut.calls]

\* The same for a b.retries of one or more.
C40_DoReturnsLastOutcome_Positive ==
    (doOut.returned /\ doIn.retries >= 1) =>
        /\ doOut.calls <= doIn.retries
        /\ \A k \in 1..(doOut.calls - 1) : doIn.fn[k] # "nil"
        /\ doOut.calls >= 1
        /\ doOut.err = doIn.fn[doOut.calls]

====
